---- MODULE Spec2Model ----
(***************************************************************************)
(* gocron-ui server: the connection registry (wsClients under wsMutex),    *)
(* the per-observer handler HandleWebSocket, the broadcast loop            *)
(* broadcastJobUpdates and the scheduler's job set they read.              *)
(*                                                                         *)
(* Every labelled position below is a line of src/unnamed/part_000.  A     *)
(* step is one access to shared state (the mutex, the map, a connection,   *)
(* the scheduler).  Statements that touch nothing another goroutine can    *)
(* observe are folded into a neighbouring step, and so is the Unlock that  *)
(* ends a critical section.  The two len(s.wsClients) reads made for the   *)
(* log keep a position of their own, because they are made with no lock.   *)
(***************************************************************************)
EXTENDS Integers, FiniteSets, Sequences, TLC

\* ---------------------------------------------------------------- bounds
MaxConns == 2
MaxJobs == 1        \* jobs created while the loop is watched
MaxApiJobs == 2     \* jobs created by the REST requests of a run

Conns == 1..MaxConns        \* one *websocket.Conn per HandleWebSocket call
JobIds == 1..MaxJobs        \* uuids the scheduler hands out, in order
B == 0                      \* the goroutine running broadcastJobUpdates
NoProc == -1                \* nobody holds the write lock
Procs == {B} \cup Conns     \* goroutines: the loop and one handler per conn

VARIABLES
  jobs,         \* Scheduler.Jobs(): ids of the jobs the scheduler holds
  nextJobId,    \* the next fresh id NewJob hands out
  wsClients,    \* Server.wsClients: the keys of the map
  wHolder,      \* wsMutex: goroutine holding the write lock, or NoProc
  wPending,     \* wsMutex: goroutines blocked inside Lock()
  rCount,       \* wsMutex: read locks held, per goroutine
  hpc,          \* position of each HandleWebSocket invocation
  connClosed,   \* conn.Close() was called on the connection
  peerGone,     \* the observer closed its side / the transport broke
  inbox,        \* per conn: "sent" while a payload of the observer waits
                \* to be read, "read" once it was read, "none" before
  bpc,          \* position of broadcastJobUpdates
  message,      \* broadcastJobUpdates: the local `message`
  client,       \* broadcastJobUpdates: the range variable `client`
  visited,      \* keys the range statement has produced in this loop
  rangeStart,   \* keys present when the range statement started
  \* history, written only, never read by the program
  joins,        \* per conn: times it went absent -> present
  leaves,       \* per conn: times it went present -> absent
  pushed,       \* per conn: <<what the handler's conn.WriteJSON (122)
                \* returned ("failed" or "sent"), the payload it was given>>,
                \* NotPushed before the call
  tickLen,      \* the map's size when this tick tested it, NotChecked before
  tickBuilds,   \* getJobsData calls made by the loop in this tick
  tickSent,     \* per conn: writes the loop attempted in this tick
  tickFailed,   \* conns on which such a write returned an error
  tickPayloads, \* payloads the loop has written in this tick
  \* the scheduler's running state, and the last REST request handled
  started,      \* the scheduler is running (Start / StopJobs)
  req,          \* the request: <<operation, path id or body>>
  resp,         \* the response written: [status, body]
  calls,        \* the scheduler calls the handler made: <<name, arg, err>>
  pre,          \* <<jobs, started>> as they were when the request came
  runJob,       \* RunJob: the id of the job its loop over Jobs() found and
                \* has not yet triggered, NoneFound otherwise
  \* the last conversion of a job into its snapshot
  theJob,       \* the gocron.Job handed to convertJobToData
  jobData       \* what came back: <<>> before, <<JobData>> after

schedVars == <<jobs, nextJobId>>
mutexVars == <<wHolder, wPending, rCount>>
connVars == <<connClosed, peerGone>>
loopVars == <<bpc, message, client, visited, rangeStart>>
tickHist == <<tickLen, tickBuilds, tickSent, tickFailed, tickPayloads>>
regHist == <<joins, leaves, pushed>>
apiVars == <<started, req, resp, calls, pre>>
dataVars == <<theJob, jobData>>
vars == <<jobs, nextJobId, wsClients, wHolder, wPending, rCount, hpc,
          connClosed, peerGone, bpc, message, client, visited,
          rangeStart, joins, leaves, pushed, tickLen,
          tickBuilds, tickSent, tickFailed, tickPayloads,
          started, req, resp, calls, pre, runJob, inbox, theJob, jobData>>

NoMessage == <<"none">>
NotPushed == <<"none", NoMessage>>
NoClient == 0
NoneFound == 0
NotChecked == -1
NoRequest == <<"none", <<>>>>
NoJob == [id |-> 0, name |-> "", tags |-> <<>>, lastRun |-> 0, runs |-> <<>>]
NoResponse == [status |-> 0, body |-> <<"none", "">>]

\* ------------------------------------------------------------ sync.RWMutex
\* Lock() returns at once when nobody holds the mutex.
LockFree == wHolder = NoProc /\ \A p \in Procs : rCount[p] = 0

\* RLock() is granted when no writer holds the mutex and none is waiting
\* (a blocked Lock call excludes new readers).
RLockFree == wHolder = NoProc /\ wPending = {}

\* Lock(), called by p: acquired at once, or p blocks inside the call when
\* the mutex is held or an earlier Lock call is still blocked.
LockCall(p) ==
  /\ p \notin wPending
  /\ IF LockFree /\ wPending = {}
       THEN wHolder' = p /\ wPending' = wPending
       ELSE wHolder' = wHolder /\ wPending' = wPending \cup {p}
  /\ rCount' = rCount

\* A blocked Lock() call of p returns.
LockGrant(p) ==
  /\ p \in wPending
  /\ LockFree
  /\ wHolder' = p
  /\ wPending' = wPending \ {p}
  /\ rCount' = rCount

Unlock(p) ==
  /\ wHolder = p
  /\ wHolder' = NoProc
  /\ UNCHANGED <<wPending, rCount>>

RLock(p) ==
  /\ RLockFree
  /\ rCount' = [rCount EXCEPT ![p] = @ + 1]
  /\ UNCHANGED <<wHolder, wPending>>

RUnlock(p) ==
  /\ rCount[p] > 0
  /\ rCount' = [rCount EXCEPT ![p] = @ - 1]
  /\ UNCHANGED <<wHolder, wPending>>

\* --------------------------------------------------------------- the map
MapInsert(m, c) == m \cup {c}          \* s.wsClients[conn] = true

\* Variants of delete used to test the claims: one that removes nothing,
\* one that puts an absent key back.
MapDeleteLost(m, c) == m
MapDeleteToggle(m, c) == IF c \in m THEN m \ {c} ELSE m \cup {c}
\* and one that empties the map when the key is absent.
MapDeleteClears(m, c) == IF c \in m THEN m \ {c} ELSE {}

MapDelete(m, c) == m \ {c}             \* delete(s.wsClients, conn)
MapLen(m) == Cardinality(m)            \* len(s.wsClients)

\* History of membership changes, computed from the map before and after.
Track(new) ==
  /\ joins' = [c \in Conns |->
                 joins[c] + IF c \in new /\ c \notin wsClients THEN 1 ELSE 0]
  /\ leaves' = [c \in Conns |->
                 leaves[c] + IF c \notin new /\ c \in wsClients THEN 1 ELSE 0]
  /\ pushed' = pushed

\* ------------------------------------------------------------- scheduler
\* Variant: a job the scheduler once held stays in every snapshot.
getJobsDataKeeps == 1..(nextJobId - 1)

\* getJobsData: one record per job Scheduler.Jobs() enumerates.
getJobsData == jobs

\* The payload {"type": "jobs", "data": jobs}.
JobsMessage(data) == <<"jobs", data>>

\* CreateJob with a request that passes validation: Scheduler.NewJob
\* (274) adds a job under a fresh id.
NewJob ==
  /\ nextJobId <= MaxJobs
  /\ jobs' = jobs \cup {nextJobId}
  /\ nextJobId' = nextJobId + 1
  /\ UNCHANGED <<wsClients, mutexVars, hpc, connVars, loopVars, regHist, tickHist>>
  /\ UNCHANGED <<apiVars, runJob, inbox, dataVars>>

\* ------------------------------------------------------------ connection
\* conn.WriteJSON returns an error on a connection closed by the server,
\* may or may not on one whose peer is gone, and succeeds otherwise.
WriteErrs(c) ==
  IF connClosed[c] THEN {TRUE}
  ELSE IF peerGone[c] THEN {TRUE, FALSE}
  ELSE {FALSE}

\* conn.ReadMessage returns an error once the server has closed the
\* connection, or the peer is gone and what it had sent has been read.
ReadFails(c) == connClosed[c] \/ (peerGone[c] /\ inbox[c] # "sent")

\* ------------------------------------------------------ HandleWebSocket
\* What no step of a handler touches.
HFrame == UNCHANGED <<schedVars, loopVars, tickHist, apiVars, runJob, inbox, dataVars>>

\* upgrader.Upgrade succeeds (107), conn.Close is deferred (112) and the
\* handler calls s.wsMutex.Lock() (114), which returns at once or blocks.
\* Fresh connections are interchangeable: they are numbered as they arrive.
Connect(c) ==
  /\ hpc[c] = "idle"
  /\ \A d \in Conns : d < c => hpc[d] # "idle"
  /\ LockCall(c)
  /\ hpc' = [hpc EXCEPT ![c] = IF wHolder' = c THEN "Add115" ELSE "Lock114"]
  /\ UNCHANGED <<wsClients, connVars, regHist>>
  /\ HFrame

\* s.wsMutex.Lock() (114) returns after blocking.
HLock114(c) ==
  /\ hpc[c] = "Lock114"
  /\ LockGrant(c)
  /\ hpc' = [hpc EXCEPT ![c] = "Add115"]
  /\ UNCHANGED <<wsClients, connVars, regHist>>
  /\ HFrame

\* s.wsClients[conn] = true; s.wsMutex.Unlock() (115-116)
HAdd115(c) ==
  /\ hpc[c] = "Add115"
  /\ wsClients' = MapInsert(wsClients, c)
  /\ Track(wsClients')
  /\ Unlock(c)
  /\ hpc' = [hpc EXCEPT ![c] = "Log118"]
  /\ UNCHANGED <<connVars>>
  /\ HFrame

\* log.Printf(..., len(s.wsClients)) (118): reads the map, takes no lock;
\* the value goes to the log only.  Then jobs := s.getJobsData() and
\* conn.WriteJSON(...) (121-127): an error is logged and the handler goes
\* on to its receive loop either way.
HLog118(c) ==
  /\ hpc[c] = "Log118"
  /\ MapLen(wsClients) \in 0..MaxConns
  /\ \E err \in WriteErrs(c) :
       hpc' = [hpc EXCEPT ![c] = "Read131"]
  /\ UNCHANGED <<wsClients, mutexVars, connVars, regHist>>
  /\ HFrame

\* Variant: a failed initial push ends the handler as a failed read does,
\* by way of the removal at 133-135.
AfterPushLeaves(c, err) ==
  /\ hpc' = [hpc EXCEPT ![c] = IF err THEN "Lock133" ELSE "Read131"]
  /\ UNCHANGED <<wsClients, connVars>>

\* What the program does with the error of the initial push (122-127):
\* log.Printf, nothing else.
AfterPush(c, err) ==
  /\ hpc' = [hpc EXCEPT ![c] = "Read131"]
  /\ UNCHANGED <<wsClients, connVars>>

\* The same step as HLog118, with the result of conn.WriteJSON (122) and
\* the payload it was given written to the history.
HPush122(c) ==
  /\ hpc[c] = "Log118"
  /\ MapLen(wsClients) \in 0..MaxConns
  /\ \E err \in WriteErrs(c) :
       /\ AfterPush(c, err)
       /\ pushed' = [pushed EXCEPT ![c] = <<IF err THEN "failed" ELSE "sent",
                                            JobsMessage(getJobsData)>>]
  /\ UNCHANGED <<mutexVars, joins, leaves>>
  /\ HFrame

\* Variant: a payload is taken for the observer's wish to leave.
HReadOk131Unsubscribes(c) ==
  /\ hpc[c] = "Read131"
  /\ inbox[c] = "sent"
  /\ ~connClosed[c]
  /\ inbox' = [inbox EXCEPT ![c] = "read"]
  /\ wsClients' = wsClients \ {c}
  /\ UNCHANGED <<mutexVars, hpc, connVars, regHist>>
  /\ UNCHANGED <<schedVars, loopVars, tickHist, apiVars, runJob, dataVars>>

\* conn.ReadMessage() returns a payload the observer sent (131): err is
\* nil, the payload is dropped (`_, _, err :=`) and the loop reads again.
HReadOk131(c) ==
  /\ hpc[c] = "Read131"
  /\ inbox[c] = "sent"
  /\ ~connClosed[c]
  /\ inbox' = [inbox EXCEPT ![c] = "read"]
  /\ UNCHANGED <<wsClients, mutexVars, hpc, connVars, regHist>>
  /\ UNCHANGED <<schedVars, loopVars, tickHist, apiVars, runJob, dataVars>>

\* conn.ReadMessage() returns an error (131-132) and the handler calls
\* s.wsMutex.Lock() (133), which returns at once or blocks.
HReadErr131(c) ==
  /\ hpc[c] = "Read131"
  /\ ReadFails(c)
  /\ LockCall(c)
  /\ hpc' = [hpc EXCEPT ![c] = IF wHolder' = c THEN "Delete134" ELSE "Lock133"]
  /\ UNCHANGED <<wsClients, connVars, regHist>>
  /\ HFrame

\* s.wsMutex.Lock() (133) returns after blocking.
HLock133(c) ==
  /\ hpc[c] = "Lock133"
  /\ LockGrant(c)
  /\ hpc' = [hpc EXCEPT ![c] = "Delete134"]
  /\ UNCHANGED <<wsClients, connVars, regHist>>
  /\ HFrame

\* delete(s.wsClients, conn); s.wsMutex.Unlock() (134-135)
HDelete134(c) ==
  /\ hpc[c] = "Delete134"
  /\ wsClients' = MapDelete(wsClients, c)
  /\ Track(wsClients')
  /\ Unlock(c)
  /\ hpc' = [hpc EXCEPT ![c] = "Log136"]
  /\ UNCHANGED <<connVars>>
  /\ HFrame

\* Variant: the handler returns and leaves the connection open.
HLog136NoClose(c) ==
  /\ hpc[c] = "Log136"
  /\ MapLen(wsClients) \in 0..MaxConns
  /\ hpc' = [hpc EXCEPT ![c] = "done"]
  /\ UNCHANGED <<wsClients, mutexVars, connVars, regHist>>
  /\ HFrame

\* log.Printf(..., len(s.wsClients)) (136), again with no lock; break;
\* the handler returns and the deferred conn.Close() (112) runs.
HLog136(c) ==
  /\ hpc[c] = "Log136"
  /\ MapLen(wsClients) \in 0..MaxConns
  /\ hpc' = [hpc EXCEPT ![c] = "done"]
  /\ connClosed' = [connClosed EXCEPT ![c] = TRUE]
  /\ UNCHANGED <<wsClients, mutexVars, peerGone, regHist>>
  /\ HFrame

HandleWebSocket(c) ==
  \/ Connect(c)
  \/ HLock114(c)
  \/ HAdd115(c)
  \/ HLog118(c)
  \/ HReadOk131(c)
  \/ HReadErr131(c)
  \/ HLock133(c)
  \/ HDelete134(c)
  \/ HLog136(c)

\* ------------------------------------------------------------- observers
Connected(c) == hpc[c] \notin {"idle", "done"}

\* The observer closes its side, or the transport breaks.
ClientClose(c) ==
  /\ Connected(c)
  /\ ~peerGone[c]
  /\ ~connClosed[c]
  /\ peerGone' = [peerGone EXCEPT ![c] = TRUE]
  /\ UNCHANGED <<wsClients, mutexVars, hpc, connClosed, regHist>>
  /\ HFrame

\* The observers that send payloads; the others only listen.
Talkers == {1}

\* The observer sends a payload: it waits in the connection to be read.
ClientSend(c) ==
  /\ Connected(c)
  /\ ~peerGone[c]
  /\ ~connClosed[c]
  /\ inbox[c] # "sent"
  /\ inbox' = [inbox EXCEPT ![c] = "sent"]
  /\ UNCHANGED <<wsClients, mutexVars, hpc, connVars, regHist>>
  /\ UNCHANGED <<schedVars, loopVars, tickHist, apiVars, runJob, dataVars>>

\* -------------------------------------------------- broadcastJobUpdates
\* What no step of the loop touches.
BFrame == UNCHANGED <<schedVars, hpc, peerGone, apiVars, runJob, inbox, dataVars>>

ZeroSent == [c \in Conns |-> 0]

\* `continue` / the end of the loop body: the tick's locals are dropped.
EndTick ==
  /\ bpc' = "Wait147"
  /\ message' = NoMessage
  /\ client' = NoClient
  /\ visited' = {}
  /\ rangeStart' = {}
  /\ tickLen' = NotChecked
  /\ tickBuilds' = 0
  /\ tickSent' = ZeroSent
  /\ tickPayloads' = {}
  /\ tickFailed' = {}

\* for range ticker.C (147): the ticker fires and the loop takes the tick.
Tick ==
  /\ bpc = "Wait147"
  /\ bpc' = "RLock148"
  /\ UNCHANGED <<wsClients, mutexVars, connClosed, message, client, visited,
                 rangeStart, regHist, tickHist>>
  /\ BFrame

\* s.wsMutex.RLock() (148)
BRLock148 ==
  /\ bpc = "RLock148"
  /\ RLock(B)
  /\ bpc' = "Len149"
  /\ UNCHANGED <<wsClients, connClosed, message, client, visited, rangeStart,
                 regHist, tickHist>>
  /\ BFrame

\* Variant: a test that never finds the map empty.
IsEmptyNever(m) == MapLen(m) < 0

\* The emptiness test of line 149.
IsEmpty(m) == MapLen(m) = 0

\* if len(s.wsClients) == 0 (149)
BLen149 ==
  /\ bpc = "Len149"
  /\ IF IsEmpty(wsClients)
       THEN bpc' = "RUnlock150"
       ELSE bpc' = "RUnlock153"
  /\ tickLen' = Cardinality(wsClients)
  /\ UNCHANGED <<wsClients, mutexVars, connClosed, message, client, visited,
                 rangeStart, regHist, tickBuilds, tickSent, tickFailed,
                 tickPayloads>>
  /\ BFrame

\* s.wsMutex.RUnlock(); continue (150-151)
BRUnlock150 ==
  /\ bpc = "RUnlock150"
  /\ RUnlock(B)
  /\ EndTick
  /\ UNCHANGED <<wsClients, connClosed, regHist>>
  /\ BFrame

\* s.wsMutex.RUnlock() (153)
BRUnlock153 ==
  /\ bpc = "RUnlock153"
  /\ RUnlock(B)
  /\ bpc' = "Build155"
  /\ UNCHANGED <<wsClients, connClosed, message, client, visited, rangeStart,
                 regHist, tickHist>>
  /\ BFrame

\* jobs := s.getJobsData(); message := ... (155-159)
BBuild155 ==
  /\ bpc = "Build155"
  /\ message' = JobsMessage(getJobsData)
  /\ tickBuilds' = tickBuilds + 1
  /\ bpc' = "RLock161"
  /\ UNCHANGED <<wsClients, mutexVars, connClosed, client, visited,
                 rangeStart, regHist, tickLen, tickSent, tickFailed,
                 tickPayloads>>
  /\ BFrame

\* s.wsMutex.RLock(); the range statement starts (161-162)
BRLock161 ==
  /\ bpc = "RLock161"
  /\ RLock(B)
  /\ rangeStart' = wsClients
  /\ visited' = {}
  /\ bpc' = "Range162"
  /\ UNCHANGED <<wsClients, connClosed, message, client, regHist, tickHist>>
  /\ BFrame

\* Variant: the range statement produces the keys that were in the map
\* when it started.
RangeCandidatesAtStart == rangeStart \ visited

\* Keys the range statement may produce next: those in the map it has not
\* produced yet (a key deleted before it is reached is never produced).
RangeCandidates == wsClients \ visited

\* The range statement may end once every key that was present when it
\* started and is still present has been produced; a key inserted during
\* the iteration may be produced or skipped.
RangeMayEnd == (rangeStart \cap wsClients) \subseteq visited

\* for client := range s.wsClients (162): the next key
BRangeNext162 ==
  /\ bpc = "Range162"
  /\ \E c \in RangeCandidates :
       /\ client' = c
       /\ visited' = visited \cup {c}
  /\ bpc' = "Write163"
  /\ UNCHANGED <<wsClients, mutexVars, connClosed, message, rangeStart,
                 regHist, tickHist>>
  /\ BFrame

\* for client := range s.wsClients (162): the range is exhausted
BRangeEnd162 ==
  /\ bpc = "Range162"
  /\ RangeMayEnd
  /\ bpc' = "RUnlock174"
  /\ UNCHANGED <<wsClients, mutexVars, connClosed, message, client, visited,
                 rangeStart, regHist, tickHist>>
  /\ BFrame

\* Variant: the snapshot is rebuilt for every client.
SendPayloadFresh == JobsMessage(getJobsData)

\* The value handed to client.WriteJSON at line 163.
SendPayload == message

\* Variant: an error ends the tick (the range is left with the read lock
\* held, as after the last key).
AfterWriteAbort(err) == IF err THEN "RUnlock174" ELSE "Range162"

\* Where the loop goes after client.WriteJSON returned err (164).
AfterWrite(err) == IF err THEN "RUnlock166" ELSE "Range162"

\* err := client.WriteJSON(message); if err != nil { log ... } (163-165)
BWrite163 ==
  /\ bpc = "Write163"
  /\ \E err \in WriteErrs(client) :
       /\ bpc' = AfterWrite(err)
       /\ tickFailed' = IF err THEN tickFailed \cup {client} ELSE tickFailed
       /\ client' = IF err THEN client ELSE NoClient
  /\ tickSent' = [tickSent EXCEPT ![client] = @ + 1]
  /\ tickPayloads' = tickPayloads \cup {SendPayload}
  /\ UNCHANGED <<wsClients, mutexVars, connClosed, message, visited,
                 rangeStart, regHist, tickLen, tickBuilds>>
  /\ BFrame

\* Variant: the loop asks for the write lock without giving up its read lock.
BRUnlock166KeepsRead ==
  /\ bpc = "RUnlock166"
  /\ bpc' = "Lock167"
  /\ UNCHANGED <<wsClients, mutexVars, connClosed, message, client, visited,
                 rangeStart, regHist, tickHist>>
  /\ BFrame

\* s.wsMutex.RUnlock() (166)
BRUnlock166 ==
  /\ bpc = "RUnlock166"
  /\ RUnlock(B)
  /\ bpc' = "Lock167"
  /\ UNCHANGED <<wsClients, connClosed, message, client, visited, rangeStart,
                 regHist, tickHist>>
  /\ BFrame

\* s.wsMutex.Lock() (167): the call, or its return after blocking.
BLock167 ==
  /\ bpc = "Lock167"
  /\ LockCall(B) \/ LockGrant(B)
  /\ bpc' = IF wHolder' = B THEN "Delete168" ELSE bpc
  /\ UNCHANGED <<wsClients, connClosed, message, client, visited, rangeStart,
                 regHist, tickHist>>
  /\ BFrame

\* delete(s.wsClients, client) (168)
BDelete168 ==
  /\ bpc = "Delete168"
  /\ wsClients' = MapDelete(wsClients, client)
  /\ Track(wsClients')
  /\ bpc' = "Close169"
  /\ UNCHANGED <<mutexVars, connClosed, message, client, visited, rangeStart, tickHist>>
  /\ BFrame

\* Variant: the pruned connection is left open.
BClose169NoClose ==
  /\ bpc = "Close169"
  /\ Unlock(B)
  /\ bpc' = "RLock171"
  /\ UNCHANGED <<wsClients, connClosed, message, client, visited, rangeStart,
                 regHist, tickHist>>
  /\ BFrame

\* Variant: the write lock is never released.
BClose169NoUnlock ==
  /\ bpc = "Close169"
  /\ connClosed' = [connClosed EXCEPT ![client] = TRUE]
  /\ bpc' = "RLock171"
  /\ UNCHANGED <<wsClients, mutexVars, message, client, visited, rangeStart,
                 regHist, tickHist>>
  /\ BFrame

\* client.Close(); s.wsMutex.Unlock() (169-170)
BClose169 ==
  /\ bpc = "Close169"
  /\ connClosed' = [connClosed EXCEPT ![client] = TRUE]
  /\ Unlock(B)
  /\ bpc' = "RLock171"
  /\ UNCHANGED <<wsClients, message, client, visited, rangeStart, regHist, tickHist>>
  /\ BFrame

\* s.wsMutex.RLock() (171), then back to the range statement
BRLock171 ==
  /\ bpc = "RLock171"
  /\ RLock(B)
  /\ bpc' = "Range162"
  /\ client' = NoClient
  /\ UNCHANGED <<wsClients, connClosed, message, visited, rangeStart, regHist, tickHist>>
  /\ BFrame

\* s.wsMutex.RUnlock() (174): the tick is over
BRUnlock174 ==
  /\ bpc = "RUnlock174"
  /\ RUnlock(B)
  /\ EndTick
  /\ UNCHANGED <<wsClients, connClosed, regHist>>
  /\ BFrame

broadcastJobUpdates ==
  \/ Tick
  \/ BRLock148
  \/ BLen149
  \/ BRUnlock150
  \/ BRUnlock153
  \/ BBuild155
  \/ BRLock161
  \/ BRangeNext162
  \/ BRangeEnd162
  \/ BWrite163
  \/ BRUnlock166
  \/ BLock167
  \/ BDelete168
  \/ BClose169
  \/ BRLock171
  \/ BRUnlock174

\* ------------------------------------------------------------- REST API
\* Everything of the observer side: no REST handler names any of it.
obsVars ==
  <<wsClients, mutexVars, hpc, connVars, inbox, loopVars, regHist, tickHist>>

StatusOK == 200
StatusCreated == 201
StatusBadRequest == 400
StatusNotFound == 404
StatusInternalServerError == 500

\* The {id} of the path: the text of a uuid, of a job the scheduler handed
\* out or of one it never did (MaxApiJobs + 1), or a text that is no uuid.
ApiJobIds == 1..MaxApiJobs
IdStrs == {<<"uuid", k>> : k \in 1..(MaxApiJobs + 1)} \cup {<<"junk", 0>>}

\* Variant: a parse that takes any text for a uuid.
uuidParseLenient(idStr) == <<TRUE, idStr[2]>>

\* uuid.Parse: <<err = nil, id>>
uuidParse(idStr) ==
  IF idStr[1] = "uuid" THEN <<TRUE, idStr[2]>> ELSE <<FALSE, 0>>

\* The scheduler's errors: nil, the one RemoveJob returns for an id it
\* does not hold, and the ones NewJob, RunNow and StopJobs may return.
NoErr == ""
ErrJobNotFound == "gocron: job not found"
SchedErrs == {"gocron: timed out", "gocron: not supported"}

\* respondJSON (481-485) and respondError (487-489)
respondJSON(status, data) == [status |-> status, body |-> data]
respondError(status, text) == respondJSON(status, <<"error", text>>)

\* convertJobToData (354-374), as far as the job's identity goes.
convertJobToData(j) == [id |-> j]

\* A handler is done: the request, the response, the scheduler calls it
\* made, and the scheduler's state it started from, are recorded.
Reply(q, r, cs) ==
  /\ req' = q
  /\ resp' = r
  /\ calls' = cs
  /\ pre' = <<jobs, started>>
  /\ UNCHANGED dataVars

\* A handler that runs from its first line to its last in one step.
Answer(q, r, cs) ==
  /\ Reply(q, r, cs)
  /\ runJob' = runJob

\* Variant: a listing that also empties the registry.
GetJobsPrunes ==
  /\ Answer(<<"GetJobs", <<>>>>,
            respondJSON(StatusOK, <<"jobs", getJobsData>>),
            << <<"Jobs", <<>>, NoErr>> >>)
  /\ wsClients' = {}
  /\ UNCHANGED <<schedVars, started, mutexVars, hpc, connVars, inbox,
                 loopVars, regHist, tickHist>>

\* GetJobs (179-182)
GetJobs ==
  /\ Answer(<<"GetJobs", <<>>>>,
            respondJSON(StatusOK, <<"jobs", getJobsData>>),
            << <<"Jobs", <<>>, NoErr>> >>)
  /\ UNCHANGED <<schedVars, started, obsVars>>

\* Variant: the jobs are enumerated before the id is parsed.
GetJobEnumeratesFirst(idStr) ==
  LET p == uuidParse(idStr)
      id == p[2]
      r == IF ~p[1] THEN respondError(StatusBadRequest, "Invalid job ID")
           ELSE IF id \in jobs
             THEN respondJSON(StatusOK, <<"job", convertJobToData(id)>>)
             ELSE respondError(StatusNotFound, "Job not found")
  IN /\ Answer(<<"GetJob", idStr>>, r, << <<"Jobs", <<>>, NoErr>> >>)
     /\ UNCHANGED <<schedVars, started, obsVars>>

\* GetJob (185-205)
GetJob(idStr) ==
  LET p == uuidParse(idStr)
      id == p[2]
  IN /\ IF ~p[1]
          THEN Answer(<<"GetJob", idStr>>,
                      respondError(StatusBadRequest, "Invalid job ID"), <<>>)
          ELSE IF id \in jobs
            THEN Answer(<<"GetJob", idStr>>,
                        respondJSON(StatusOK, <<"job", convertJobToData(id)>>),
                        << <<"Jobs", <<>>, NoErr>> >>)
            ELSE Answer(<<"GetJob", idStr>>,
                        respondError(StatusNotFound, "Job not found"),
                        << <<"Jobs", <<>>, NoErr>> >>)
     /\ UNCHANGED <<schedVars, started, obsVars>>

\* Variant: the error RemoveJob returned is dropped.
RemoveJobReplyAlwaysOK(err) ==
  respondJSON(StatusOK, <<"message", "Job deleted successfully">>)

\* DeleteJob's answer to the error RemoveJob returned (295-300).
RemoveJobReply(err) ==
  IF err = NoErr
    THEN respondJSON(StatusOK, <<"message", "Job deleted successfully">>)
    ELSE respondError(StatusNotFound, "Job not found")

\* DeleteJob (285-301): Scheduler.RemoveJob fails for an id the scheduler
\* does not hold; whatever the error, the answer is 404 "Job not found".
DeleteJob(idStr) ==
  LET p == uuidParse(idStr)
      id == p[2]
      err == IF id \in jobs THEN NoErr ELSE ErrJobNotFound
  IN IF ~p[1]
       THEN /\ Answer(<<"DeleteJob", idStr>>,
                      respondError(StatusBadRequest, "Invalid job ID"), <<>>)
            /\ UNCHANGED <<schedVars, started, obsVars>>
       ELSE /\ jobs' = jobs \ {id}
            /\ Answer(<<"DeleteJob", idStr>>, RemoveJobReply(err),
                      << <<"RemoveJob", <<id>>, err>> >>)
            /\ UNCHANGED <<nextJobId, started, obsVars>>

\* Variant: the first job enumerated is triggered, whatever its id.
RunJobFirst(idStr) ==
  LET p == uuidParse(idStr)
      id == p[2]
      first == CHOOSE j \in jobs : \A k \in jobs : j <= k
  IN /\ IF ~p[1]
          THEN Answer(<<"RunJob", idStr>>,
                      respondError(StatusBadRequest, "Invalid job ID"), <<>>)
          ELSE IF id \in jobs
            THEN \E err \in {NoErr} \cup SchedErrs :
                   Answer(<<"RunJob", idStr>>,
                          IF err # NoErr
                            THEN respondError(StatusInternalServerError, err)
                            ELSE respondJSON(StatusOK, <<"message", "Job executed">>),
                          << <<"Jobs", <<>>, NoErr>>, <<"RunNow", <<first>>, err>> >>)
            ELSE Answer(<<"RunJob", idStr>>,
                        respondError(StatusNotFound, "Job not found"),
                        << <<"Jobs", <<>>, NoErr>> >>)
     /\ UNCHANGED <<schedVars, started, obsVars>>

\* RunJob (304-327): job.RunNow() may fail.
RunJob(idStr) ==
  LET p == uuidParse(idStr)
      id == p[2]
  IN /\ IF ~p[1]
          THEN Answer(<<"RunJob", idStr>>,
                      respondError(StatusBadRequest, "Invalid job ID"), <<>>)
          ELSE IF id \in jobs
            THEN \E err \in {NoErr} \cup SchedErrs :
                   Answer(<<"RunJob", idStr>>,
                          IF err # NoErr
                            THEN respondError(StatusInternalServerError, err)
                            ELSE respondJSON(StatusOK, <<"message", "Job executed">>),
                          << <<"Jobs", <<>>, NoErr>>, <<"RunNow", <<id>>, err>> >>)
            ELSE Answer(<<"RunJob", idStr>>,
                        respondError(StatusNotFound, "Job not found"),
                        << <<"Jobs", <<>>, NoErr>> >>)
     /\ UNCHANGED <<schedVars, started, obsVars>>

\* Variant: the trigger fares the same whether or not the scheduler still
\* holds the job.
RunNowErrsAnyJob(id) == {NoErr} \cup SchedErrs

\* job.RunNow() (318): the trigger goes to the scheduler, which answers
\* with an error for a job it no longer holds.
RunNowErrs(id) ==
  IF id \in jobs THEN {NoErr} \cup SchedErrs
                 ELSE {ErrJobNotFound} \cup SchedErrs

\* RunJob as far as the match in its loop (304-317): the id is parsed and
\* Scheduler.Jobs() is enumerated.  A handler that found the job has not
\* answered yet; the others are done.
RunJobFind(idStr) ==
  LET p == uuidParse(idStr)
      id == p[2]
  IN /\ runJob = NoneFound
     /\ IF ~p[1]
          THEN /\ Reply(<<"RunJob", idStr>>,
                        respondError(StatusBadRequest, "Invalid job ID"), <<>>)
               /\ runJob' = runJob
          ELSE IF id \in jobs
            THEN /\ runJob' = id
                 /\ UNCHANGED <<req, resp, calls, pre, dataVars>>
            ELSE /\ Reply(<<"RunJob", idStr>>,
                          respondError(StatusNotFound, "Job not found"),
                          << <<"Jobs", <<>>, NoErr>> >>)
                 /\ runJob' = runJob
     /\ UNCHANGED <<schedVars, started, obsVars>>

\* RunJob from job.RunNow() on (318-323), whatever happened to the
\* scheduler since the enumeration.
RunJobTrigger ==
  /\ runJob # NoneFound
  /\ \E err \in RunNowErrs(runJob) :
       Reply(<<"RunJob", <<"uuid", runJob>>>>,
             IF err # NoErr
               THEN respondError(StatusInternalServerError, err)
               ELSE respondJSON(StatusOK, <<"message", "Job executed">>),
             << <<"Jobs", <<>>, NoErr>>, <<"RunNow", <<runJob>>, err>> >>)
  /\ runJob' = NoneFound
  /\ UNCHANGED <<schedVars, started, obsVars>>

\* StopScheduler (330-336): Scheduler.StopJobs() may fail, and then the
\* scheduler may or may not have stopped.
StopScheduler ==
  \E err \in {NoErr} \cup SchedErrs :
    /\ Answer(<<"StopScheduler", <<>>>>,
              IF err # NoErr
                THEN respondError(StatusInternalServerError, err)
                ELSE respondJSON(StatusOK, <<"message", "Scheduler stopped">>),
              << <<"StopJobs", <<>>, err>> >>)
    /\ started' \in (IF err = NoErr THEN {FALSE} ELSE {FALSE, started})
    /\ UNCHANGED <<schedVars, obsVars>>

\* Variant: a start is forwarded only to a scheduler believed stopped.
StartSchedulerOnce ==
  /\ Answer(<<"StartScheduler", <<>>>>,
            respondJSON(StatusOK, <<"message", "Scheduler started">>),
            IF started THEN <<>> ELSE << <<"Start", <<>>, NoErr>> >>)
  /\ started' = TRUE
  /\ UNCHANGED <<schedVars, obsVars>>

\* StartScheduler (339-342)
StartScheduler ==
  /\ Answer(<<"StartScheduler", <<>>>>,
            respondJSON(StatusOK, <<"message", "Scheduler started">>),
            << <<"Start", <<>>, NoErr>> >>)
  /\ started' = TRUE
  /\ UNCHANGED <<schedVars, obsVars>>

\* The body of POST /api/jobs as it is sent: text that is no JSON, or a
\* JSON object whose fields are these; a missing field is the zero value.
\* interval is a JSON number or a JSON string; atTime is the text sent.
Names == {"", "backup"}
Types == {"duration", "cron", "daily", "weekly"}
Intervals == {<<"num", -1>>, <<"num", 0>>, <<"num", 5>>, <<"str", 0>>}
CronExpressions == {"", "*/5 * * * *"}
AtTimes == {"", "09:30", "09:30:15", "25:00"}

NotJSON ==
  [syntax |-> FALSE, name |-> "", type |-> "", interval |-> <<"num", 0>>,
   cronExpression |-> "", atTime |-> "", tags |-> <<>>]

Bodies ==
  {NotJSON} \cup
  [syntax : {TRUE}, name : Names, type : Types, interval : Intervals,
   cronExpression : CronExpressions, atTime : AtTimes, tags : {<<>>}]

\* json.NewDecoder(r.Body).Decode(&req) (210): <<err = nil, req>>.  It
\* fails on text that is no JSON and on a field of the wrong JSON type.
Decode(body) ==
  IF body.syntax /\ body.interval[1] = "num"
    THEN <<TRUE, [Name |-> body.name, Type |-> body.type,
                  Interval |-> body.interval[2],
                  CronExpression |-> body.cronExpression,
                  AtTime |-> body.atTime, Tags |-> body.tags]>>
    ELSE <<FALSE, [Name |-> "", Type |-> "", Interval |-> 0,
                   CronExpression |-> "", AtTime |-> "", Tags |-> <<>>]>>

\* The text from position i on (positions count from 1).
From(s, i) == SubSeq(s, i, Len(s))

HasPrefix(s, p) == Len(s) >= Len(p) /\ SubSeq(s, 1, Len(p)) = p

isDigit(s, i) ==
  i <= Len(s) /\ SubSeq(s, i, i) \in {"0", "1", "2", "3", "4", "5", "6", "7", "8", "9"}

DigitValue(ch) ==
  CASE ch = "0" -> 0 [] ch = "1" -> 1 [] ch = "2" -> 2 [] ch = "3" -> 3
    [] ch = "4" -> 4 [] ch = "5" -> 5 [] ch = "6" -> 6 [] ch = "7" -> 7
    [] ch = "8" -> 8 [] ch = "9" -> 9

\* time.Parse's reading of a number of one or two digits, of exactly two
\* when fixed: <<err = nil, number, rest of the text>>
getnum(s, fixed) ==
  IF ~isDigit(s, 1) THEN <<FALSE, 0, s>>
  ELSE IF ~isDigit(s, 2)
    THEN IF fixed THEN <<FALSE, 0, s>>
         ELSE <<TRUE, DigitValue(SubSeq(s, 1, 1)), From(s, 2)>>
  ELSE <<TRUE, 10 * DigitValue(SubSeq(s, 1, 1)) + DigitValue(SubSeq(s, 2, 2)),
         From(s, 3)>>

\* The digits of a fractional second.  time.Parse reads them after the
\* seconds field, behind a period or a comma, also when the layout has
\* none; what is left of the text after them.
RECURSIVE SkipDigits(_)
SkipDigits(s) == IF isDigit(s, 1) THEN SkipDigits(From(s, 2)) ELSE s

AfterSeconds(s) ==
  IF Len(s) >= 2 /\ SubSeq(s, 1, 1) \in {".", ","} /\ isDigit(s, 2)
    THEN SkipDigits(From(s, 2))
    ELSE s

\* time.Parse(layout, value) for the two layouts of parseTime:
\* <<err = nil, <<hour, minute, second>>>>.  The hour ("15") has one or
\* two digits, the minute ("04") and the second ("05") two; text left over
\* after the layout is an error.
timeParse(layout, value) ==
  LET h == getnum(value, FALSE)
      m == getnum(From(h[3], 2), TRUE)
      s == getnum(From(m[3], 2), TRUE)
      bad == <<FALSE, <<>> >>
  IN IF ~h[1] \/ h[2] >= 24 THEN bad
     ELSE IF ~HasPrefix(h[3], ":") THEN bad
     ELSE IF ~m[1] \/ m[2] >= 60 THEN bad
     ELSE IF layout = "15:04"
       THEN IF Len(m[3]) > 0 THEN bad ELSE <<TRUE, <<h[2], m[2], 0>> >>
     ELSE IF ~HasPrefix(m[3], ":") THEN bad
     ELSE IF ~s[1] \/ s[2] >= 60 THEN bad
     ELSE IF Len(AfterSeconds(s[3])) > 0 THEN bad
     ELSE <<TRUE, <<h[2], m[2], s[2]>> >>

\* parseTime (468-478): "15:04:05", then "15:04"; <<err = nil, atTime>>
parseTime(t) ==
  IF timeParse("15:04:05", t)[1] THEN timeParse("15:04:05", t)
  ELSE IF timeParse("15:04", t)[1] THEN timeParse("15:04", t)
  ELSE <<FALSE, <<>> >>

\* Variant: a weekly job is taken as a duration job.
CheckedWeekly(r) ==
  IF r.Name = "" THEN <<FALSE, "Job name is required", <<>> >>
  ELSE IF r.Type \in {"duration", "weekly"} THEN
    IF r.Interval <= 0
      THEN <<FALSE, "Interval must be positive for duration jobs", <<>> >>
      ELSE <<TRUE, "", <<"DurationJob", r.Interval>> >>
  ELSE IF r.Type = "cron" THEN
    IF r.CronExpression = ""
      THEN <<FALSE, "Cron expression is required for cron jobs", <<>> >>
      ELSE <<TRUE, "", <<"CronJob", r.CronExpression>> >>
  ELSE IF r.Type = "daily" THEN
    IF r.Interval <= 0
      THEN <<FALSE, "Interval must be positive for daily jobs", <<>> >>
    ELSE IF r.AtTime = ""
      THEN <<FALSE, "AtTime is required for daily jobs", <<>> >>
    ELSE IF ~parseTime(r.AtTime)[1]
      THEN <<FALSE, "Invalid time format. Use HH:MM:SS", <<>> >>
      ELSE <<TRUE, "", <<"DailyJob", r.Interval, parseTime(r.AtTime)[2]>> >>
  ELSE <<FALSE, "Invalid job type. Supported: duration, cron, daily", <<>> >>

\* Variant: the type is looked at before the name.
CheckedTypeFirst(r) ==
  IF r.Type \notin {"duration", "cron", "daily"}
    THEN <<FALSE, "Invalid job type. Supported: duration, cron, daily", <<>> >>
  ELSE IF r.Name = "" THEN <<FALSE, "Job name is required", <<>> >>
  ELSE IF r.Type \in {"duration", "daily"} /\ r.Interval <= 0
    THEN <<FALSE, "Interval must be positive", <<>> >>
  ELSE <<TRUE, "", <<"DurationJob", 1>> >>

\* The checks of CreateJob after decoding (215-258), in the code's order:
\* <<passed, error text, job definition>>
Checked(r) ==
  IF r.Name = "" THEN <<FALSE, "Job name is required", <<>> >>
  ELSE IF r.Type = "duration" THEN
    IF r.Interval <= 0
      THEN <<FALSE, "Interval must be positive for duration jobs", <<>> >>
      ELSE <<TRUE, "", <<"DurationJob", r.Interval>> >>
  ELSE IF r.Type = "cron" THEN
    IF r.CronExpression = ""
      THEN <<FALSE, "Cron expression is required for cron jobs", <<>> >>
      ELSE <<TRUE, "", <<"CronJob", r.CronExpression>> >>
  ELSE IF r.Type = "daily" THEN
    IF r.Interval <= 0
      THEN <<FALSE, "Interval must be positive for daily jobs", <<>> >>
    ELSE IF r.AtTime = ""
      THEN <<FALSE, "AtTime is required for daily jobs", <<>> >>
    ELSE IF ~parseTime(r.AtTime)[1]
      THEN <<FALSE, "Invalid time format. Use HH:MM:SS", <<>> >>
      ELSE <<TRUE, "", <<"DailyJob", r.Interval, parseTime(r.AtTime)[2]>> >>
  ELSE <<FALSE, "Invalid job type. Supported: duration, cron, daily", <<>> >>

\* Variant: the tags are not handed on.
JobOptionsNameOnly(r) == << <<"WithName", r.Name>> >>

\* The options of the submission (266-271): the name always, the tags
\* when there are any.
JobOptions(r) ==
  << <<"WithName", r.Name>> >> \o
  (IF Len(r.Tags) > 0 THEN << <<"WithTags", r.Tags>> >> ELSE <<>>)

\* CreateJob (208-282): Scheduler.NewJob may fail; when it does not, the
\* job gets a fresh id.
CreateJob(body) ==
  LET d == Decode(body)
      c == Checked(d[2])
      q == <<"CreateJob", body>>
  IN IF ~d[1]
       THEN /\ Answer(q, respondError(StatusBadRequest, "Invalid request body"), <<>>)
            /\ UNCHANGED <<schedVars, started, obsVars>>
     ELSE IF ~c[1]
       THEN /\ Answer(q, respondError(StatusBadRequest, c[2]), <<>>)
            /\ UNCHANGED <<schedVars, started, obsVars>>
     ELSE \E err \in {NoErr} \cup SchedErrs :
            /\ err = NoErr => nextJobId <= MaxApiJobs
            /\ IF err # NoErr
                 THEN /\ Answer(q, respondError(StatusInternalServerError, err),
                                << <<"NewJob", <<c[3], JobOptions(d[2])>>, err>> >>)
                      /\ UNCHANGED schedVars
                 ELSE /\ jobs' = jobs \cup {nextJobId}
                      /\ nextJobId' = nextJobId + 1
                      /\ Answer(q, respondJSON(StatusCreated,
                                               <<"job", convertJobToData(nextJobId)>>),
                                << <<"NewJob", <<c[3], JobOptions(d[2])>>, NoErr>> >>)
            /\ UNCHANGED <<started, obsVars>>

\* ------------------------------------------------------- the whole system
\* NewServer (56-103): an empty registry, a free mutex, the loop started.
InitServer ==
  /\ jobs = {}
  /\ nextJobId = 1
  /\ wsClients = {}
  /\ wHolder = NoProc
  /\ wPending = {}
  /\ rCount = [p \in Procs |-> 0]
  /\ hpc = [c \in Conns |-> "idle"]
  /\ connClosed = [c \in Conns |-> FALSE]
  /\ peerGone = [c \in Conns |-> FALSE]
  /\ bpc = "Wait147"
  /\ message = NoMessage
  /\ client = NoClient
  /\ visited = {}
  /\ rangeStart = {}
  /\ joins = [c \in Conns |-> 0]
  /\ leaves = [c \in Conns |-> 0]
  /\ pushed = [c \in Conns |-> NotPushed]
  /\ tickLen = NotChecked
  /\ tickBuilds = 0
  /\ tickSent = ZeroSent
  /\ tickFailed = {}
  /\ tickPayloads = {}
  /\ started = FALSE
  /\ req = NoRequest
  /\ resp = NoResponse
  /\ calls = <<>>
  /\ pre = <<{}, FALSE>>
  /\ runJob = NoneFound
  /\ inbox = [c \in Conns |-> "none"]

\* No job has been converted yet.
Init ==
  /\ InitServer
  /\ theJob = NoJob
  /\ jobData = <<>>

\* The steps of a handler that wait for nothing but the Go scheduler.
HandlerRuns(c) ==
  \/ HLock114(c)
  \/ HAdd115(c)
  \/ HLog118(c)
  \/ HLock133(c)
  \/ HDelete134(c)
  \/ HLog136(c)

\* The steps of a handler whose observer sends nothing: ReadMessage only
\* ever returns an error.
HandleWebSocketUnsent(c) ==
  \/ Connect(c)
  \/ HandlerRuns(c)
  \/ HReadErr131(c)

\* The server with a scheduler nobody changes and observers that listen
\* and never send.
Next ==
  \/ \E c \in Conns : HandleWebSocketUnsent(c)
  \/ \E c \in Conns : ClientClose(c)
  \/ broadcastJobUpdates

Spec == Init /\ [][Next]_vars

\* The same with jobs being created meanwhile.
SchedNext ==
  \/ Next
  \/ NewJob

SchedSpec == Init /\ [][SchedNext]_vars

\* Goroutines are scheduled fairly: the loop (and its ticker) keeps taking
\* steps, and so does a handler that is not waiting for its observer.
FairSpec ==
  /\ Spec
  /\ WF_vars(broadcastJobUpdates)
  /\ \A c \in Conns : WF_vars(HandlerRuns(c))

\* conn.ReadMessage (131) on a connection the server has closed returns
\* its error without waiting for the observer.
HReadClosed131(c) == connClosed[c] /\ HReadErr131(c)

CloseFairSpec ==
  /\ FairSpec
  /\ \A c \in Conns : WF_vars(HReadClosed131(c))

\* The server of Spec with the result of every initial push on record.
HandleWebSocketPush(c) ==
  \/ Connect(c)
  \/ HLock114(c)
  \/ HAdd115(c)
  \/ HPush122(c)
  \/ HReadErr131(c)
  \/ HLock133(c)
  \/ HDelete134(c)
  \/ HLog136(c)

PushNext ==
  \/ \E c \in Conns : HandleWebSocketPush(c)
  \/ \E c \in Conns : ClientClose(c)
  \/ broadcastJobUpdates

PushSpec == Init /\ [][PushNext]_vars

\* Requests handled side by side: jobs are created and deleted while a
\* RunJob is between its enumeration and its trigger.
RaceNext ==
  \/ NewJob
  \/ GetJobs
  \/ \E idStr \in IdStrs : GetJob(idStr)
  \/ \E idStr \in IdStrs : DeleteJob(idStr)
  \/ \E idStr \in IdStrs : RunJobFind(idStr)
  \/ RunJobTrigger
  \/ StopScheduler
  \/ StartScheduler

RaceSpec == Init /\ [][RaceNext]_vars

\* Jobs come and go while snapshots are taken: by the loop, by the
\* handlers of observers that arrive, and by GetJobs.  The observers stay,
\* so every write of the loop succeeds.
HandleWebSocketArrives(c) ==
  \/ Connect(c)
  \/ HLock114(c)
  \/ HAdd115(c)
  \/ HPush122(c)

broadcastDelivers ==
  \/ Tick
  \/ BRLock148
  \/ BLen149
  \/ BRUnlock150
  \/ BRUnlock153
  \/ BBuild155
  \/ BRLock161
  \/ BRangeNext162
  \/ BRangeEnd162
  \/ BWrite163
  \/ BRUnlock174

SnapNext ==
  \/ NewJob
  \/ \E id \in jobs : DeleteJob(<<"uuid", id>>)
  \/ GetJobs
  \/ \E c \in Conns : HandleWebSocketArrives(c)
  \/ broadcastDelivers

SnapSpec == Init /\ [][SnapNext]_vars

\* The same server with observers that also send payloads.
RecvNext ==
  \/ \E c \in Conns : HandleWebSocket(c)
  \/ \E c \in Conns : ClientClose(c)
  \/ \E c \in Talkers : ClientSend(c)
  \/ broadcastJobUpdates

RecvSpec == Init /\ [][RecvNext]_vars

\* One request at a time, each handled in one step.
ApiNext ==
  \/ GetJobs
  \/ \E idStr \in IdStrs : GetJob(idStr)
  \/ \E body \in Bodies : CreateJob(body)
  \/ \E idStr \in IdStrs : DeleteJob(idStr)
  \/ \E idStr \in IdStrs : RunJob(idStr)
  \/ StopScheduler
  \/ StartScheduler

\* The server when the requests come: no observer has arrived yet, or all
\* of them are registered and their handlers wait in ReadMessage (131);
\* the loop waits for its ticker, nothing else has happened yet.
ApiInit ==
  \E k \in {0, MaxConns} :
    /\ jobs = {}
    /\ nextJobId = 1
    /\ wsClients = 1..k
    /\ wHolder = NoProc
    /\ wPending = {}
    /\ rCount = [p \in Procs |-> 0]
    /\ hpc = [c \in Conns |-> IF c <= k THEN "Read131" ELSE "idle"]
    /\ connClosed = [c \in Conns |-> FALSE]
    /\ peerGone = [c \in Conns |-> FALSE]
    /\ bpc = "Wait147"
    /\ message = NoMessage
    /\ client = NoClient
    /\ visited = {}
    /\ rangeStart = {}
    /\ joins = [c \in Conns |-> IF c <= k THEN 1 ELSE 0]
    /\ leaves = [c \in Conns |-> 0]
    /\ pushed = [c \in Conns |->
                   IF c <= k THEN <<"sent", JobsMessage({})>> ELSE NotPushed]
    /\ tickLen = NotChecked
    /\ tickBuilds = 0
    /\ tickSent = ZeroSent
    /\ tickFailed = {}
    /\ tickPayloads = {}
    /\ started = FALSE
    /\ req = NoRequest
    /\ resp = NoResponse
    /\ calls = <<>>
    /\ pre = <<{}, FALSE>>
    /\ runJob = NoneFound
    /\ inbox = [c \in Conns |-> "none"]
    /\ theJob = NoJob
    /\ jobData = <<>>

ApiSpec == ApiInit /\ [][ApiNext]_vars

\* Create requests alone, with more of what a body can carry: types the
\* handler does not know, tags, and atTime texts of several shapes.
CreateTypes == {"duration", "cron", "daily", "weekly", "monthly"}
CreateIntervals == {<<"num", -1>>, <<"num", 0>>, <<"num", 1>>}
CreateAtTimes == {"", "14:30", "14:30:15", "14:30:15.5", "9:30", "25:00"}
TagLists == {<<>>, <<"nightly", "db">>}

\* Only a daily job's atTime is read, so the other types get two of them.
CreateBodies ==
  {b \in [syntax : {TRUE}, name : {"backup", "x"}, type : CreateTypes,
          interval : CreateIntervals, cronExpression : CronExpressions,
          atTime : CreateAtTimes, tags : TagLists] :
     b.type # "daily" => b.atTime \in {"", "14:30"}}

CreateNext == \E body \in CreateBodies : CreateJob(body)

CreateSpec == Init /\ [][CreateNext]_vars

\* ------------------------------------------------- the snapshot of a job
\* A time.Time counts the milliseconds since the zero time (January 1,
\* year 1, 00:00:00 UTC); a time.Duration counts milliseconds.
ZeroTime == 0
Second == 1000
Minute == 60 * Second
Hour == 60 * Minute

\* strings.Contains(s, substr)
Contains(s, substr) ==
  \E i \in 1..(Len(s) - Len(substr) + 1) :
    SubSeq(s, i, i + Len(substr) - 1) = substr

\* One row of the table of inferSchedule: <<matched, schedule, detail>>
NoMatch == <<FALSE, "", "">>

everyRow(name) ==
  IF Contains(name, "every") \/ Contains(name, "interval") THEN
    IF Contains(name, "10s") \/ Contains(name, "10-s")
      THEN <<TRUE, "Every 10 seconds", "Duration: 10s">>
    ELSE IF Contains(name, "5s")
      THEN <<TRUE, "Every 5 seconds", "Duration: 5s">>
    ELSE IF Contains(name, "minute")
      THEN <<TRUE, "Every minute", "Duration: 1m">>
    ELSE NoMatch
  ELSE NoMatch

\* Variant: only the name "cron" itself is a cron job's.
cronRowWholeName(name) ==
  IF name = "cron" THEN <<TRUE, "Cron schedule", "Cron: * * * * *">> ELSE NoMatch

cronRow(name) ==
  IF Contains(name, "cron")
    THEN <<TRUE, "Cron schedule", "Cron: * * * * *">> ELSE NoMatch

\* Variant: a daily job's label follows its timestamps only.
dailyRowNever(name) == NoMatch

dailyRow(name) ==
  IF Contains(name, "daily") THEN <<TRUE, "Daily", "Daily schedule">> ELSE NoMatch

weeklyRow(name) ==
  IF Contains(name, "weekly")
    THEN <<TRUE, "Weekly", "Weekly: Mon, Wed, Fri">> ELSE NoMatch

randomRow(name) ==
  IF Contains(name, "random")
    THEN <<TRUE, "Random interval", "Random: 5-15s">> ELSE NoMatch

singletonRow(name) ==
  IF Contains(name, "singleton")
    THEN <<TRUE, "Every 5 seconds (singleton)", "Duration: 5s, Mode: Singleton">>
    ELSE NoMatch

limitedRow(name) ==
  IF Contains(name, "limited")
    THEN <<TRUE, "Every 7 seconds (limited)", "Duration: 7s, Max runs: 3">>
    ELSE NoMatch

parameterRow(name) ==
  IF Contains(name, "parameter")
    THEN <<TRUE, "Every 12 seconds", "Duration: 12s">> ELSE NoMatch

contextRow(name) ==
  IF Contains(name, "context")
    THEN <<TRUE, "Every 8 seconds", "Duration: 8s">> ELSE NoMatch

oneTimeRow(name) ==
  IF Contains(name, "one-time") \/ Contains(name, "onetime")
    THEN <<TRUE, "One time only", "OneTime job">> ELSE NoMatch

\* The first row of a list of rows that matched.
RECURSIVE FirstMatch(_)
FirstMatch(rows) ==
  IF rows = <<>> THEN NoMatch
  ELSE IF Head(rows)[1] THEN Head(rows)
  ELSE FirstMatch(Tail(rows))

\* Variant: the daily row is looked at before the cron row.
namePatternsDailyFirst(name) ==
  IF Len(name) > 0
    THEN FirstMatch(<<everyRow(name), dailyRow(name), cronRow(name),
                      weeklyRow(name), randomRow(name), singletonRow(name),
                      limitedRow(name), parameterRow(name), contextRow(name),
                      oneTimeRow(name)>>)
    ELSE NoMatch

\* inferSchedule (380-429): the rows in the order of the code, each one
\* returning when it matches.
namePatterns(name) ==
  IF Len(name) > 0
    THEN FirstMatch(<<everyRow(name), cronRow(name), dailyRow(name),
                      weeklyRow(name), randomRow(name), singletonRow(name),
                      limitedRow(name), parameterRow(name), contextRow(name),
                      oneTimeRow(name)>>)
    ELSE NoMatch

\* Variant: the quotient is rounded up.
WholeUp(d, unit) == (d + unit - 1) \div unit

\* int(interval.Seconds()), int(interval.Minutes()), ...: the quotient
\* without its fraction.
Whole(d, unit) == IF d >= 0 THEN d \div unit ELSE -((-d) \div unit)

\* Variant: the time from the first to the last timestamp.
SubFirstLast(nextRuns) == nextRuns[Len(nextRuns)] - nextRuns[1]

\* interval := nextRuns[1].Sub(nextRuns[0]) (433)
Sub(nextRuns) == nextRuns[2] - nextRuns[1]

\* The buckets of inferSchedule (435-447)
intervalLabel(interval) ==
  IF interval < Minute
    THEN <<"Every " \o ToString(Whole(interval, Second)) \o " seconds",
           "Duration: " \o ToString(Whole(interval, Second)) \o "s">>
  ELSE IF interval < Hour
    THEN <<"Every " \o ToString(Whole(interval, Minute)) \o " minutes",
           "Duration: " \o ToString(Whole(interval, Minute)) \o "m">>
  ELSE IF interval < 24 * Hour
    THEN <<"Every " \o ToString(Whole(interval, Hour)) \o " hours",
           "Duration: " \o ToString(Whole(interval, Hour)) \o "h">>
  ELSE <<"Every " \o ToString(Whole(interval, 24 * Hour)) \o " days",
         "Duration: " \o ToString(Whole(interval, 24 * Hour)) \o "d">>

\* Variant: the interval is computed from three timestamps on.
enoughRunsThree(nextRuns) == Len(nextRuns) >= 3

\* len(nextRuns) >= 2 (432)
enoughRuns(nextRuns) == Len(nextRuns) >= 2

\* inferSchedule (376-451): <<schedule, scheduleDetail>>
inferSchedule(j, nextRuns) ==
  IF namePatterns(j.name)[1]
    THEN <<namePatterns(j.name)[2], namePatterns(j.name)[3]>>
  ELSE IF enoughRuns(nextRuns)
    THEN intervalLabel(Sub(nextRuns))
  ELSE <<"Scheduled", "Custom schedule">>

\* A number in two digits.
Two(n) == IF n < 10 THEN "0" \o ToString(n) ELSE ToString(n)

\* t.Format(time.RFC3339) of a UTC time of January, year 1: the date, the
\* time of day to the second, "Z"; what is below a second is left out.
FormatRFC3339(t) ==
  LET secs == t \div Second
  IN "0001-01-" \o Two((secs \div 86400) + 1) \o "T" \o
     Two((secs % 86400) \div 3600) \o ":" \o Two((secs % 3600) \div 60) \o ":" \o
     Two(secs % 60) \o "Z"

\* Variant: the zero time is formatted like any other.
formatTimeAlways(t) == FormatRFC3339(t)

\* formatTime (453-458)
formatTime(t) == IF t = ZeroTime THEN "" ELSE FormatRFC3339(t)

\* formatTimes (460-466)
formatTimes(times) == [i \in 1..Len(times) |-> formatTime(times[i])]

\* job.NextRun() (355): the first upcoming run, the zero time when there
\* is none.
NextRun(j) == IF j.runs = <<>> THEN ZeroTime ELSE j.runs[1]

\* job.NextRuns(count) (359): the first count upcoming runs.
RunsAsked == 5
NextRuns(j, count) ==
  SubSeq(j.runs, 1, IF Len(j.runs) < count THEN Len(j.runs) ELSE count)

\* convertJobToData (354-374) with every field of the JobData it builds.
JobData(j) ==
  LET nextRuns == NextRuns(j, RunsAsked)
  IN [ID |-> j.id, Name |-> j.name, Tags |-> j.tags,
      NextRun |-> formatTime(NextRun(j)),
      LastRun |-> formatTime(j.lastRun),
      NextRuns |-> formatTimes(nextRuns),
      Schedule |-> inferSchedule(j, nextRuns)[1],
      ScheduleDetail |-> inferSchedule(j, nextRuns)[2]]

\* The gocron.Job is converted; GetJobs, GetJob, CreateJob and the loop
\* get every snapshot from this one function.
ConvertJob ==
  /\ jobData = <<>>
  /\ jobData' = <<JobData(theJob)>>
  /\ UNCHANGED <<schedVars, obsVars, apiVars, runJob, theJob>>

\* The jobs a scheduler can hold.  Names: the words of the table, words
\* that look like them, two of them joined, and the names of the example
\* program.
Words ==
  {"every", "interval", "10s", "10-s", "5s", "minute", "cron", "daily",
   "weekly", "random", "singleton", "limited", "parameter", "context",
   "one-time", "onetime", "job", "Daily", "CRON", "10", "15s", "report"}

ExampleNames ==
  {"simple-10s-interval", "fast-5s-job", "cron-every-minute",
   "daily-afternoon-report", "weekly-mwf-morning", "parameterized-job",
   "context-aware-job", "random-interval-job", "singleton-mode-job",
   "limited-run-job", "event-listener-job", "one-time-job",
   "data-processor-job", "health-check-job"}

JobNames ==
  {""} \cup Words \cup {a \o "-" \o b : a \in Words, b \in Words} \cup
  ExampleNames \cup {"cronjob-reporter", "every-10-singleton"}

\* Upcoming runs: none, one, two that are d apart, a third one after
\* them, and six at equal steps.
FirstRun == 1000500
Deltas ==
  {0, 500, 999, 10000, 59999, 60000, 90000, 3599999, 3600000, 5400000,
   86399999, 86400000, 129600000, 216000000}

RunLists ==
  {<<>>, <<FirstRun>>} \cup
  {<<FirstRun, FirstRun + d>> : d \in Deltas} \cup
  {<<FirstRun, FirstRun + d, FirstRun + d + 7000>> : d \in Deltas} \cup
  {[i \in 1..6 |-> FirstRun + (i - 1) * d] : d \in {0, 10000, 3600000}}

JobObjects ==
  {[id |-> v[1], name |-> n, tags |-> v[2], lastRun |-> v[3], runs |-> r] :
     v \in {<<1, <<>>, ZeroTime>>, <<2, <<"db">>, 86400999>>},
     n \in JobNames, r \in RunLists}

DataInit ==
  /\ InitServer
  /\ theJob \in JobObjects
  /\ jobData = <<>>

DataNext == ConvertJob

DataSpec == DataInit /\ [][DataNext]_vars

\* ------------------------------------------------ registry and its lock
\* p's next statement reads the map / changes the map.
ReadsRegistry(p) ==
  \/ p = B /\ bpc \in {"Len149", "Range162"}
  \/ p \in Conns /\ hpc[p] \in {"Log118", "Log136"}

WritesRegistry(p) ==
  \/ p = B /\ bpc = "Delete168"
  \/ p \in Conns /\ hpc[p] \in {"Add115", "Delete134"}

HoldsRead(p) == rCount[p] > 0
HoldsWrite(p) == wHolder = p

\* C1: every read of the registry is made with the read or the write lock
\* held, every add/remove with the write lock held, and no state has one
\* goroutine about to read the registry while another is about to change it.
C1_RegistryAccessLocked ==
  /\ \A p \in Procs : ReadsRegistry(p) => HoldsRead(p) \/ HoldsWrite(p)
  /\ \A p \in Procs : WritesRegistry(p) => HoldsWrite(p)
  /\ \A p, q \in Procs :
       p # q /\ ReadsRegistry(p) => ~WritesRegistry(q)

\* p is inside Lock() or RLock() and the call cannot return now.
Blocked(p) ==
  \/ p \in wPending /\ ~LockFree
  \/ p = B /\ bpc \in {"RLock148", "RLock161", "RLock171"} /\ ~RLockFree

Alive(p) == p = B \/ Connected(p)

\* C2: the loop never asks for the write lock while it holds the read lock
\* (and never asks for a second read lock), the goroutines that are running
\* are never all blocked on the mutex, and whenever one is blocked another
\* one holds the mutex and can run, or a waiting Lock call can return.
C2_PruneNeverDeadlocks ==
  /\ bpc = "Lock167" => rCount[B] = 0
  /\ B \in wPending => rCount[B] = 0
  /\ bpc \in {"RLock148", "RLock161", "RLock171"} => rCount[B] = 0
  /\ ~(\A p \in Procs : Alive(p) => Blocked(p))
  /\ \A p \in Procs :
       Blocked(p) =>
         \E q \in Procs :
           \/ (HoldsRead(q) \/ HoldsWrite(q)) /\ ~Blocked(q)
           \/ q \in wPending /\ LockFree

\* The loop waits inside Lock() for a handler that is in its critical
\* section, and another handler waits with it.
C2_Witness ==
  /\ B \in wPending
  /\ \E c, d \in Conns : c # d /\ wHolder = c /\ d \in wPending

\* Line 115 has run for c / a delete of c has run: line 134 in its handler,
\* or line 168 in the loop (which closes c right after, before the handler
\* of c can close it).
Added(c) == hpc[c] \in {"Log118", "Read131", "Lock133", "Delete134",
                        "Log136", "done"}
Removed(c) ==
  \/ hpc[c] \in {"Log136", "done"}
  \/ connClosed[c]
  \/ bpc = "Close169" /\ client = c

\* C3: the registry holds exactly the connections added and not yet
\* removed, so its size is the number of those, and once every observer
\* that connected has disconnected it is empty.
C3_RegistryCountsAddsAndRemoves ==
  /\ wsClients = {c \in Conns : Added(c) /\ ~Removed(c)}
  /\ MapLen(wsClients) =
       Cardinality({c \in Conns : Added(c)})
         - Cardinality({c \in Conns : Added(c) /\ Removed(c)})
  /\ (\A c \in Conns : hpc[c] \in {"idle", "done"}) => wsClients = {}

\* All observers have connected and disconnected, with broadcast ticks in
\* between (the loop is in the middle of one).
C3_Witness ==
  /\ \A c \in Conns : hpc[c] = "done" /\ joins[c] = 1
  /\ wsClients = {}
  /\ bpc = "RUnlock174"

\* C4: a connection enters the registry at most once and leaves it at most
\* once, is in it exactly between the two, and has left it exactly once
\* when its handler has returned.
C4_MembershipOnceInOnceOut ==
  \A c \in Conns :
    /\ joins[c] <= 1
    /\ leaves[c] <= joins[c]
    /\ c \in wsClients <=> joins[c] = 1 /\ leaves[c] = 0
    /\ hpc[c] \in {"Log136", "done"} => joins[c] = 1 /\ leaves[c] = 1

\* The loop has removed and closed c, and the handler of c has then run its
\* own delete of c.
C4_Witness ==
  \E c \in Conns :
    /\ bpc = "RLock171" /\ client = c
    /\ hpc[c] = "Log136"
    /\ leaves[c] = 1

\* C5: no connection gets two writes in one tick, and when the range
\* statement ends, every connection that was registered when it started and
\* still is has got exactly one.
C5_FailedSendDoesNotAbortTick ==
  /\ \A c \in Conns : tickSent[c] <= 1
  /\ bpc = "RUnlock174" =>
       \A c \in rangeStart \cap wsClients : tickSent[c] = 1

\* A tick ends in which one write failed and a connection registered
\* throughout got its write.
C5_Witness ==
  /\ bpc = "RUnlock174"
  /\ tickFailed # {}
  /\ \E c \in rangeStart \cap wsClients : tickSent[c] = 1

\* C6: whenever the loop is about to pick or write to a connection, or ends
\* the tick, every connection whose write failed in this tick has left the
\* registry and is closed; and the loop writes only to a connection that
\* has never left the registry, so never again to one whose write failed.
C6_FailedConnRemovedAndClosed ==
  /\ bpc \in {"Range162", "Write163", "RUnlock174"} =>
       \A c \in tickFailed :
         c \notin wsClients /\ leaves[c] = 1 /\ connClosed[c]
  /\ bpc = "Write163" =>
       client \in wsClients /\ leaves[client] = 0 /\ client \notin tickFailed

\* The loop is about to write to a connection after a write to another one
\* failed in the same tick.
C6_Witness ==
  /\ bpc = "Write163"
  /\ tickFailed # {}

\* C7: the loop builds a snapshot only in a tick whose test found the
\* registry non-empty, at most once; a tick that found it empty builds
\* nothing and writes nothing.
C7_EmptyTickBuildsNothing ==
  /\ tickBuilds > 0 => tickLen > 0
  /\ tickBuilds <= 1
  /\ tickLen = 0 =>
       /\ tickBuilds = 0
       /\ message = NoMessage
       /\ tickPayloads = {}
       /\ \A c \in Conns : tickSent[c] = 0
  /\ bpc \in {"RUnlock153", "Build155"} => tickLen > 0 /\ tickBuilds = 0

\* A tick finds the registry empty after observers have come and gone.
C7_Witness ==
  /\ bpc = "RUnlock150"
  /\ tickLen = 0
  /\ tickBuilds = 0
  /\ \E c \in Conns : leaves[c] = 1

\* The handler of c has not yet made its initial push (121-122).
NotYetPushed(c) == hpc[c] \in {"idle", "Lock114", "Add115", "Log118"}

\* C8: the loop writes to a connection only after the connection's handler
\* has made the initial push.
C8_InitialPushFirst ==
  \A c \in Conns : tickSent[c] > 0 => ~NotYetPushed(c)

\* C9: a tick that writes has built exactly one snapshot, and every write
\* of the tick carried it.
C9_OneSnapshotPerTick ==
  /\ tickPayloads \subseteq {message}
  /\ Cardinality(tickPayloads) <= 1
  /\ bpc \in {"RLock161", "Range162", "Write163", "RUnlock166", "Lock167",
              "Delete168", "Close169", "RLock171", "RUnlock174"} =>
       tickBuilds = 1 /\ message # NoMessage
  /\ (\E c \in Conns : tickSent[c] > 0) => tickPayloads = {message}

\* Two connections have been written to in a tick and the job set is no
\* longer the one the tick's snapshot was built from.
C9_Witness ==
  /\ \E c, d \in Conns : c # d /\ tickSent[c] = 1 /\ tickSent[d] = 1
  /\ message # JobsMessage(getJobsData)
  /\ tickPayloads = {message}

\* The loop holds no part of the mutex.
LoopHoldsNothing == rCount[B] = 0 /\ wHolder # B /\ B \notin wPending

\* C10: under fair scheduling every tick the loop takes is completed, the
\* loop is then back at the ticker holding no lock, and it takes further
\* ticks for ever.
C10_LoopNeverStops ==
  /\ []<>(bpc = "Wait147" /\ LoopHoldsNothing)
  /\ (bpc # "Wait147") ~> (bpc = "Wait147" /\ LoopHoldsNothing)
  /\ []<><<Tick>>_vars

\* A tick is over in which the loop pruned a connection whose handler is
\* still running.
C10_Witness ==
  /\ bpc = "Wait147"
  /\ LoopHoldsNothing
  /\ \E c \in Conns : connClosed[c] /\ hpc[c] = "Read131"

\* ------------------------------------------------------ C11: idempotence
\* C11: a delete made for a connection that is no longer in the map, by
\* the handler (134) or by the loop (168), leaves the map as it was, and
\* the goroutine goes on to its next statement.
C11_RemoveAbsentIsNoOp ==
  [][/\ \A c \in Conns :
         hpc[c] = "Delete134" /\ hpc'[c] # "Delete134" /\ c \notin wsClients
           => wsClients' = wsClients /\ hpc'[c] = "Log136"
     /\ bpc = "Delete168" /\ bpc' # "Delete168" /\ client \notin wsClients
           => wsClients' = wsClients /\ bpc' = "Close169"]_vars

\* Both the loop and the handler have run their delete for one connection
\* while another connection stays registered.
C11_Witness ==
  \E c, d \in Conns :
    /\ c # d
    /\ bpc = "Close169" /\ client = c
    /\ hpc[c] \in {"Log136", "done"}
    /\ leaves[c] = 1
    /\ d \in wsClients

\* ------------------------------------------------ REST: what was asked
\* The request named a well-formed uuid (claims' own reading of the path).
WellFormed(idStr) == idStr[1] = "uuid"

\* The scheduler calls of the last request that bear the given name.
CallsNamed(name) == {i \in 1..Len(calls) : calls[i][1] = name}

\* The last request left the scheduler as it found it.
SchedulerUntouched == jobs = pre[1] /\ started = pre[2]

IsError(text) == resp.body[1] = "error" /\ resp.body[2] = text

\* C12: no step of a REST handler changes anything of the observer side:
\* the registry, its lock, the connections, the loop and what it has sent.
C12_ControlLeavesObserversAlone ==
  [][UNCHANGED obsVars]_vars

\* A delete that changed the job set was served while observers were
\* registered.
C12_Witness ==
  /\ wsClients # {}
  /\ req[1] = "DeleteJob"
  /\ resp.status = StatusOK
  /\ jobs # pre[1]

\* C13: the step in which ReadMessage returns an observer's payload
\* changes nothing of the registry, the lock, the connections, the
\* scheduler, or what the loop has built and sent; a handler leaves
\* ReadMessage only when the read failed, and from there on it changes the
\* registry only by its own delete (134), which removes no other key.
C13_PayloadNotInterpreted ==
  [][\A c \in Conns :
       /\ hpc[c] = "Read131" /\ inbox[c] = "sent" /\ inbox'[c] = "read" =>
            UNCHANGED <<wsClients, mutexVars, hpc, connVars, regHist,
                        schedVars, started, loopVars, tickHist>>
       /\ hpc[c] = "Read131" /\ hpc'[c] # "Read131" => ReadFails(c)
       /\ hpc[c] \in {"Read131", "Lock133", "Delete134", "Log136"}
            /\ hpc'[c] # hpc[c] =>
              /\ wsClients' \in {wsClients, wsClients \ {c}}
              /\ wsClients' # wsClients => hpc[c] = "Delete134"
              /\ UNCHANGED <<schedVars, started, loopVars, tickHist>>]_vars

\* An observer's payload has been read and the observer is still
\* registered and read from, while another handler has removed its own
\* connection after a failed read and returned.
C13_Witness ==
  \E c, d \in Conns :
    /\ inbox[c] = "read"
    /\ c \in wsClients
    /\ hpc[c] = "Read131"
    /\ hpc[d] = "done"
    /\ leaves[d] = 1

\* C14: a request answered 400 made no scheduler call and left the
\* scheduler as it was; and each of the invalid inputs is answered 400.
C14_ValidationBeforeScheduler ==
  /\ resp.status = StatusBadRequest =>
       calls = <<>> /\ SchedulerUntouched
  /\ req[1] \in {"GetJob", "DeleteJob", "RunJob"} /\ ~WellFormed(req[2]) =>
       resp.status = StatusBadRequest
  /\ req[1] = "CreateJob" =>
       LET b == req[2] IN
         \/ ~b.syntax
         \/ b.interval[1] # "num"
         \/ b.name = ""
         \/ b.type \notin {"duration", "cron", "daily"}
         \/ b.type \in {"duration", "daily"} /\ b.interval[2] <= 0
         \/ b.type = "cron" /\ b.cronExpression = ""
         \/ b.type = "daily" /\ b.atTime \in {"", "25:00"}
         => resp.status = StatusBadRequest

\* A daily job with an unparseable atTime was refused while the scheduler
\* held jobs.
C14_Witness ==
  /\ req[1] = "CreateJob"
  /\ req[2].name # "" /\ req[2].type = "daily" /\ req[2].atTime = "25:00"
  /\ req[2].interval = <<"num", 5>>
  /\ resp.status = StatusBadRequest
  /\ IsError("Invalid time format. Use HH:MM:SS")
  /\ jobs # {}

\* C15: when a scheduler call of create, delete, run or stop returned an
\* error, the response's error message is that error's text, and the call
\* was made once.
C15_SchedulerErrorsVerbatim ==
  \A i \in 1..Len(calls) :
    calls[i][3] # NoErr =>
      /\ IsError(calls[i][3])
      /\ Cardinality(CallsNamed(calls[i][1])) = 1

\* C16: a delete of a well-formed id the scheduler does not hold answers
\* 404 and changes nothing; an id that was handed out and is gone never
\* comes back, so the delete that follows a successful delete of the same
\* id, at once or later, answers 404.
C16_DeleteAbsentIsNotFound ==
  /\ [](req[1] = "DeleteJob" /\ WellFormed(req[2]) /\ req[2][2] \notin pre[1] =>
          resp.status = StatusNotFound /\ SchedulerUntouched)
  /\ [](req[1] = "DeleteJob" /\ resp.status = StatusOK =>
          req[2][2] \in pre[1] /\ req[2][2] \notin jobs)
  /\ [][\A id \in ApiJobIds : id < nextJobId /\ id \notin jobs => id \notin jobs']_vars
  /\ [][req[1] = "DeleteJob" /\ resp.status = StatusOK /\ req' = req =>
          resp'.status = StatusNotFound]_vars

\* A job was created and deleted, another is still held, and a second
\* delete of the first was answered 404.
C16_Witness ==
  /\ req[1] = "DeleteJob"
  /\ WellFormed(req[2])
  /\ req[2][2] < nextJobId
  /\ resp.status = StatusNotFound
  /\ jobs # {}

\* C17: GetJob answers 400 exactly for an id that is no uuid, else 404
\* exactly when the scheduler holds no job of that id, else 200 with the
\* data of the job of that id; the scheduler is left as it was.
C17_GetJobStatus ==
  req[1] = "GetJob" =>
    LET idStr == req[2]
        id == idStr[2]
    IN /\ resp.status \in {StatusBadRequest, StatusNotFound, StatusOK}
       /\ resp.status = StatusBadRequest <=> ~WellFormed(idStr)
       /\ resp.status = StatusNotFound <=> WellFormed(idStr) /\ id \notin pre[1]
       /\ resp.status = StatusOK <=> WellFormed(idStr) /\ id \in pre[1]
       /\ resp.status = StatusOK =>
            resp.body[1] = "job" /\ resp.body[2].id = id
       /\ SchedulerUntouched

\* One of two jobs held was asked for and returned.
C17_Witness ==
  /\ req[1] = "GetJob"
  /\ resp.status = StatusOK
  /\ resp.body[1] = "job"
  /\ resp.body[2].id = req[2][2]
  /\ Cardinality(jobs) = 2

\* C18: RunJob triggers at most one job, the one whose id was asked for;
\* 404 and no trigger when the scheduler holds no such job, 500 when the
\* trigger failed, 200 only when it succeeded.
C18_RunJobTriggersOnlyTheJob ==
  req[1] = "RunJob" =>
    LET idStr == req[2]
        id == idStr[2]
        runs == CallsNamed("RunNow")
    IN /\ Cardinality(runs) <= 1
       /\ \A i \in runs : calls[i][2] = <<id>> /\ id \in pre[1]
       /\ WellFormed(idStr) /\ id \notin pre[1] =>
            resp.status = StatusNotFound /\ runs = {}
       /\ resp.status = StatusNotFound => runs = {}
       /\ (\E i \in runs : calls[i][3] # NoErr) =>
            resp.status = StatusInternalServerError
       /\ resp.status = StatusOK =>
            \E i \in runs : calls[i][3] = NoErr
       /\ SchedulerUntouched

\* With two jobs held, the second was asked for and its trigger failed.
C18_Witness ==
  /\ req[1] = "RunJob"
  /\ Cardinality(jobs) = 2
  /\ req[2] = <<"uuid", 2>>
  /\ resp.status = StatusInternalServerError
  /\ \E i \in CallsNamed("RunNow") : calls[i][2] = <<2>> /\ calls[i][3] # NoErr

\* C19: a stop request makes exactly one StopJobs call and a start request
\* exactly one Start call, whether the scheduler was running or not.
C19_StartStopForwardedOnce ==
  /\ req[1] = "StopScheduler" =>
       Len(calls) = 1 /\ calls[1][1] = "StopJobs"
  /\ req[1] = "StartScheduler" =>
       Len(calls) = 1 /\ calls[1][1] = "Start" /\ started

\* A start request reached a scheduler that was already running and was
\* forwarded.
C19_Witness ==
  /\ req[1] = "StartScheduler"
  /\ pre[2]
  /\ Len(calls) = 1
  /\ calls[1][1] = "Start"

\* C20 as stated: a body whose name is empty is answered 400 "Job name is
\* required" whatever its other fields are.
C20_EmptyNameAnyFields ==
  req[1] = "CreateJob" /\ req[2].syntax /\ req[2].name = "" =>
    resp.status = StatusBadRequest /\ IsError("Job name is required")

\* C20, amended: a body that decodes and whose name is empty is answered
\* 400 "Job name is required" whatever its type, interval, cron expression
\* and atTime are; no scheduler call is made.
C20_EmptyNameOfDecodedBody ==
  req[1] = "CreateJob" /\ req[2].syntax /\ req[2].interval[1] = "num"
    /\ req[2].name = "" =>
      /\ resp.status = StatusBadRequest
      /\ IsError("Job name is required")
      /\ calls = <<>>

\* An empty name came with an unsupported type and a non-positive interval.
C20_Witness ==
  /\ req[1] = "CreateJob"
  /\ req[2].syntax
  /\ req[2].name = ""
  /\ req[2].type = "weekly"
  /\ req[2].interval = <<"num", -1>>
  /\ IsError("Job name is required")

C22_OneSubmissionWithMetadata ==
  req[1] = "CreateJob" =>
    /\ resp.status \in {StatusCreated, StatusBadRequest, StatusInternalServerError}
    /\ resp.status = StatusBadRequest => calls = <<>> /\ jobs = pre[1]
    /\ resp.status # StatusBadRequest =>
         /\ Len(calls) = 1
         /\ calls[1][1] = "NewJob"
         /\ calls[1][2][2] =
              << <<"WithName", req[2].name>> >> \o
              (IF req[2].tags # <<>> THEN << <<"WithTags", req[2].tags>> >> ELSE <<>>)
         /\ calls[1][3] = NoErr =>
              /\ resp.status = StatusCreated
              /\ \E id \in jobs \ pre[1] :
                   /\ jobs = pre[1] \cup {id}
                   /\ resp.body = <<"job", convertJobToData(id)>>
         /\ calls[1][3] # NoErr =>
              /\ resp.status = StatusInternalServerError
              /\ jobs = pre[1]

\* A tagged job was created: 201, one submission with its name and tags.
C22_Witness ==
  /\ req[1] = "CreateJob"
  /\ req[2].tags = <<"nightly", "db">>
  /\ resp.status = StatusCreated
  /\ Len(calls) = 1

\* ------------------------------------------------------------------ C23
\* The two forms of an atTime: two-digit fields between colons, each in
\* its range.
Pair(t, i) == 10 * DigitValue(SubSeq(t, i, i)) + DigitValue(SubSeq(t, i + 1, i + 1))

IsHHMM(t) ==
  /\ Len(t) = 5
  /\ isDigit(t, 1) /\ isDigit(t, 2) /\ SubSeq(t, 3, 3) = ":"
  /\ isDigit(t, 4) /\ isDigit(t, 5)
  /\ Pair(t, 1) < 24 /\ Pair(t, 4) < 60

IsHHMMSS(t) ==
  /\ Len(t) = 8
  /\ IsHHMM(SubSeq(t, 1, 5))
  /\ SubSeq(t, 6, 6) = ":" /\ isDigit(t, 7) /\ isDigit(t, 8)
  /\ Pair(t, 7) < 60

\* C23: the atTime of a daily create request is read as HH:MM:SS first and
\* as HH:MM when that fails: an HH:MM:SS text gives its hour, minute and
\* second, an HH:MM text its hour and minute with second 0, and a text of
\* neither form is an error, answered 400.
C23_AtTimeForms ==
  (/\ req[1] = "CreateJob" /\ Decode(req[2])[1] /\ req[2].name # ""
   /\ req[2].type = "daily" /\ req[2].interval[2] > 0 /\ req[2].atTime # "") =>
    LET t == req[2].atTime
        n == req[2].interval[2]
    IN /\ IsHHMMSS(t) =>
            /\ Len(calls) = 1
            /\ calls[1][2][1] = <<"DailyJob", n, <<Pair(t, 1), Pair(t, 4), Pair(t, 7)>> >>
       /\ IsHHMM(t) =>
            /\ Len(calls) = 1
            /\ calls[1][2][1] = <<"DailyJob", n, <<Pair(t, 1), Pair(t, 4), 0>> >>
       /\ (~IsHHMMSS(t) /\ ~IsHHMM(t)) =>
            /\ resp.status = StatusBadRequest
            /\ IsError("Invalid time format. Use HH:MM:SS")
            /\ calls = <<>>

\* ---------------------------------------------------------- C24 .. C30
\* What the claims say of a name, in their own words.
\* The first entry of the table: "every" or "interval" together with one
\* of the markers.
HasMarker(name) ==
  /\ Contains(name, "every") \/ Contains(name, "interval")
  /\ \E p \in {"10s", "10-s", "5s", "minute"} : Contains(name, p)

\* The entries after it, in their order: <<patterns, schedule>>
LaterEntries ==
  << <<{"cron"}, "Cron schedule">>, <<{"daily"}, "Daily">>,
     <<{"weekly"}, "Weekly">>, <<{"random"}, "Random interval">>,
     <<{"singleton"}, "Every 5 seconds (singleton)">>,
     <<{"limited"}, "Every 7 seconds (limited)">>,
     <<{"parameter"}, "Every 12 seconds">>, <<{"context"}, "Every 8 seconds">>,
     <<{"one-time", "onetime"}, "One time only">> >>

EntryMatches(name, i) == \E p \in LaterEntries[i][1] : Contains(name, p)

NoPatternMatches(name) ==
  ~HasMarker(name) /\ \A i \in 1..Len(LaterEntries) : ~EntryMatches(name, i)

\* The timestamps the conversion asked the scheduler for.
AskedRuns == NextRuns(theJob, RunsAsked)

\* The descriptor of the snapshot.
Described == <<jobData[1].Schedule, jobData[1].ScheduleDetail>>

\* C24 as it was stated: every job whose name contains "daily" is
\* described as ("Daily", "Daily schedule"), whatever its timestamps and
\* whatever else its name contains.
C24_DailyWhateverElse ==
  (jobData # <<>> /\ Contains(theJob.name, "daily")) =>
    Described = <<"Daily", "Daily schedule">>

\* C24: every job whose name contains "daily", does not contain "cron" and
\* does not contain "every" or "interval" together with "10s", "10-s",
\* "5s" or "minute" is described as ("Daily", "Daily schedule"), whatever
\* its timestamps and whatever else its name contains.
C24_DailyUnlessEarlierEntry ==
  (/\ jobData # <<>>
   /\ Contains(theJob.name, "daily")
   /\ ~Contains(theJob.name, "cron")
   /\ ~HasMarker(theJob.name)) =>
    Described = <<"Daily", "Daily schedule">>

\* A job with "daily" and "weekly" in its name and runs ten seconds apart
\* was described as Daily.
C24_Witness ==
  /\ jobData # <<>>
  /\ theJob.name = "weekly-daily"
  /\ Len(theJob.runs) = 2 /\ theJob.runs[2] - theJob.runs[1] = 10000
  /\ Described = <<"Daily", "Daily schedule">>

\* C25 as it was stated: every job whose name contains "cron" is described
\* as ("Cron schedule", "Cron: * * * * *"), whatever else the name
\* contains, the example job "cron-every-minute" included.
C25_CronWhateverElse ==
  (jobData # <<>> /\ Contains(theJob.name, "cron")) =>
    Described = <<"Cron schedule", "Cron: * * * * *">>

\* C25: every job whose name contains "cron" and does not contain "every"
\* or "interval" together with "10s", "10-s", "5s" or "minute" is described
\* as ("Cron schedule", "Cron: * * * * *"), whatever else the name
\* contains; the example job "cron-every-minute" is described as
\* ("Every minute", "Duration: 1m").
C25_CronUnlessMarker ==
  jobData # <<>> =>
    /\ (Contains(theJob.name, "cron") /\ ~HasMarker(theJob.name)) =>
         Described = <<"Cron schedule", "Cron: * * * * *">>
    /\ theJob.name = "cron-every-minute" =>
         Described = <<"Every minute", "Duration: 1m">>

\* A job named "cronjob-reporter" with runs a day apart was described as
\* a cron job.
C25_Witness ==
  /\ jobData # <<>>
  /\ theJob.name = "cronjob-reporter"
  /\ Len(theJob.runs) = 2 /\ theJob.runs[2] - theJob.runs[1] = 24 * Hour
  /\ Described = <<"Cron schedule", "Cron: * * * * *">>

C27_FallbackExactly ==
  /\ jobData = <<>> =>
       /\ Len(inferSchedule(theJob, AskedRuns)) = 2
       /\ inferSchedule(theJob, AskedRuns)[1] # ""
       /\ inferSchedule(theJob, AskedRuns)[2] # ""
  /\ jobData # <<>> =>
       /\ Described[1] # "" /\ Described[2] # ""
       /\ (Described = <<"Scheduled", "Custom schedule">>) <=>
            (NoPatternMatches(theJob.name) /\ Len(AskedRuns) < 2)
       /\ (Described[1] = "Scheduled" \/ Described[2] = "Custom schedule") =>
            Described = <<"Scheduled", "Custom schedule">>

\* A job without a name and without runs was described as Scheduled.
C27_Witness ==
  /\ jobData # <<>>
  /\ theJob.name = "" /\ theJob.runs = <<>>
  /\ Described = <<"Scheduled", "Custom schedule">>

\* The jobs with the name and the first two timestamps of the job that was
\* converted.
FirstTwo(runs) == SubSeq(runs, 1, IF Len(runs) < 2 THEN Len(runs) ELSE 2)

Twins ==
  {j \in [id : {7}, name : {theJob.name}, tags : {<<>>, <<"x", "y">>},
          lastRun : {ZeroTime, 5000}, runs : RunLists] :
     FirstTwo(j.runs) = FirstTwo(theJob.runs)}

\* C28: the descriptor is a function of the job's name and its first two
\* timestamps: a job with the same name and the same first two timestamps
\* gets the same label and detail, whatever its id, tags, last run and
\* later timestamps; computing it changes nothing else.
C28_DescriptorIsPure ==
  /\ [](jobData # <<>> =>
          \A j \in Twins : inferSchedule(j, NextRuns(j, RunsAsked)) = Described)
  /\ [][UNCHANGED <<schedVars, obsVars, apiVars, theJob>>]_vars

\* A job with three runs was described; a job with the same name and only
\* the first two of them is among its twins.
C28_Witness ==
  /\ jobData # <<>>
  /\ theJob.name = "report" /\ theJob.tags = <<"db">>
  /\ Len(theJob.runs) = 3 /\ theJob.runs[2] - theJob.runs[1] = 90000
  /\ Cardinality(Twins) >= 4
  /\ Described = <<"Every 1 minutes", "Duration: 1m">>

\* A timestamp as the snapshots spell it, and the second it names.
WellFormedStamp(s) ==
  /\ Len(s) = 20
  /\ SubSeq(s, 1, 8) = "0001-01-"
  /\ \A i \in {9, 10, 12, 13, 15, 16, 18, 19} : isDigit(s, i)
  /\ SubSeq(s, 11, 11) = "T" /\ SubSeq(s, 14, 14) = ":"
  /\ SubSeq(s, 17, 17) = ":" /\ SubSeq(s, 20, 20) = "Z"
  /\ Pair(s, 9) \in 1..31 /\ Pair(s, 12) < 24 /\ Pair(s, 15) < 60 /\ Pair(s, 18) < 60

StampSecond(s) ==
  (Pair(s, 9) - 1) * 86400 + Pair(s, 12) * 3600 + Pair(s, 15) * 60 + Pair(s, 18)

Spells(s, t) ==
  IF t = 0 THEN s = ""
  ELSE s # "" /\ WellFormedStamp(s) /\ StampSecond(s) = t \div 1000

\* C29: in a snapshot nextRun and lastRun are empty exactly when the
\* scheduler's timestamp is the zero time and a well-formed timestamp
\* otherwise; nextRuns has the length and the order of the timestamps the
\* scheduler returned when asked for 5, so it has at most 5 entries and
\* does not decrease.
C29_SnapshotTimes ==
  jobData # <<>> =>
    LET d == jobData[1]
        n == IF Len(theJob.runs) < 5 THEN Len(theJob.runs) ELSE 5
    IN /\ Spells(d.NextRun, IF theJob.runs = <<>> THEN 0 ELSE theJob.runs[1])
       /\ Spells(d.LastRun, theJob.lastRun)
       /\ Len(d.NextRuns) = n
       /\ \A i \in 1..n : Spells(d.NextRuns[i], theJob.runs[i])
       /\ \A i \in 1..n : \A k \in i..n :
            StampSecond(d.NextRuns[i]) <= StampSecond(d.NextRuns[k])

\* A job that never ran and has six runs ahead was converted: lastRun is
\* empty and nextRuns has five entries.
C29_Witness ==
  /\ jobData # <<>>
  /\ theJob.lastRun = ZeroTime /\ Len(theJob.runs) = 6
  /\ theJob.runs[2] > theJob.runs[1]
  /\ jobData[1].LastRun = "" /\ Len(jobData[1].NextRuns) = 5

\* The label the table gives a name its patterns match.
RECURSIVE FirstEntry(_, _)
FirstEntry(name, i) ==
  IF EntryMatches(name, i) THEN LaterEntries[i][2] ELSE FirstEntry(name, i + 1)

TableLabel(name) ==
  IF HasMarker(name) THEN
    IF Contains(name, "10s") \/ Contains(name, "10-s") THEN "Every 10 seconds"
    ELSE IF Contains(name, "5s") THEN "Every 5 seconds"
    ELSE "Every minute"
  ELSE FirstEntry(name, 1)

\* C30: the name is matched against a fixed table, entry by entry, and the
\* first entry that matches gives the label: "every" or "interval" with
\* "10s" or "10-s", else with "5s", else with "minute"; then "cron",
\* "daily", "weekly", "random", "singleton", "limited", "parameter",
\* "context", "one-time" or "onetime"; upper and lower case differ; the
\* timestamps are looked at only when no entry matches.
C30_OrderedTable ==
  jobData # <<>> =>
    /\ ~NoPatternMatches(theJob.name) => Described[1] = TableLabel(theJob.name)
    /\ NoPatternMatches(theJob.name) =>
         Described[1] = IF Len(AskedRuns) >= 2
                          THEN intervalLabel(AskedRuns[2] - AskedRuns[1])[1]
                          ELSE "Scheduled"
    /\ theJob.name \in {"CRON", "Daily", "CRON-Daily"} => NoPatternMatches(theJob.name)
    /\ theJob.name = "CRON" => Described[1] # "Cron schedule"

\* A job with "daily" before "cron" in its name was described as a cron
\* job, the earlier entry.
C30_Witness ==
  /\ jobData # <<>>
  /\ theJob.name = "daily-cron"
  /\ Len(theJob.runs) >= 2
  /\ Described = <<"Cron schedule", "Cron: * * * * *">>

\* ------------------------------------------------------------------ C31
\* C31: no connection has two writes in progress at once: the handler's
\* initial push (122) and the loop's write to the same connection (163)
\* are never both about to run, neither waiting for the other.
C31_OneWriterPerConnection ==
  \A c \in Conns : ~(hpc[c] = "Log118" /\ bpc = "Write163" /\ client = c)

\* ------------------------------------------------------------------ C32
\* C32: the loop writes only to a connection that is in the registry when
\* it writes and that no handler has removed, also after it gave up the
\* read lock to prune another connection and took it again; and it writes
\* to no connection twice in one tick.
C32_SendsOnlyToRegistered ==
  [][(bpc = "Write163" /\ tickSent' # tickSent) =>
       /\ client \in wsClients
       /\ hpc[client] \notin {"Log136", "done"}
       /\ leaves[client] = 0
       /\ tickSent[client] = 0
       /\ \A c \in Conns : tickSent'[c] <= 1]_vars

\* A tick ends in which the loop pruned one connection and, while it had
\* given up its lock, the handler of another removed that one: it was in
\* the registry when the range statement started and got no write.
C32_Witness ==
  /\ bpc = "RUnlock174"
  /\ \E c, d \in Conns :
       /\ c # d
       /\ c \in tickFailed
       /\ d \in rangeStart /\ d \notin wsClients /\ d \notin tickFailed
       /\ hpc[d] \in {"Log136", "done"}
       /\ tickSent[d] = 0

\* ------------------------------------------------------------------ C33
\* C33: under fair scheduling every connection that left the registry is
\* eventually closed by the server and its handler eventually returns,
\* whether the loop removed it (168-169: the handler's read then fails,
\* its own delete changes nothing and it returns) or the handler did
\* (134: it returns and the deferred Close runs); and no connection is
\* closed by the server while it is in the registry.
C33_RemovedIsClosedAndHandlerEnds ==
  /\ \A c \in Conns : [](connClosed[c] => c \notin wsClients)
  /\ \A c \in Conns : (leaves[c] > 0) ~> (connClosed[c] /\ hpc[c] = "done")

\* The loop pruned a connection in this tick and the connection's handler
\* has already returned.
C33_Witness ==
  \E c \in Conns :
    /\ c \in tickFailed
    /\ connClosed[c]
    /\ leaves[c] = 1
    /\ hpc[c] = "done"

\* C34: a failed initial push changes neither the registry nor the
\* connection: the handler logs and enters its receive loop, a connection
\* that was registered stays registered, and it leaves the registry only
\* by the handler's removal after a failed read or by the loop's removal
\* after a failed send to it.
C34_FailedPushKeepsConnection ==
  [][\A c \in Conns :
       /\ (pushed[c] = NotPushed /\ pushed'[c][1] = "failed") =>
            /\ wsClients' = wsClients
            /\ connClosed' = connClosed
            /\ hpc'[c] = "Read131"
       /\ (hpc'[c] = "Lock133" /\ hpc[c] # "Lock133") => hpc[c] = "Read131"
       /\ (pushed[c][1] = "failed" /\ c \in wsClients /\ c \notin wsClients') =>
            \/ hpc[c] = "Delete134"
            \/ bpc = "Delete168" /\ client = c /\ c \in tickFailed]_vars

\* The loop is about to send to a registered, open connection whose
\* initial push failed and whose handler waits in its receive loop.
C34_Witness ==
  \E c \in Conns :
    /\ pushed[c][1] = "failed"
    /\ c \in wsClients /\ ~connClosed[c]
    /\ hpc[c] = "Read131"
    /\ bpc = "Write163" /\ client = c

\* The ids the scheduler handed out and no longer holds.
GoneIds == {id \in 1..(nextJobId - 1) : id \notin jobs}

\* The step is a RunJob that answers from its enumeration, for this id.
RunAnswersAtOnce(id) ==
  /\ runJob = NoneFound /\ runJob' = NoneFound
  /\ <<req, resp, calls, pre>>' # <<req, resp, calls, pre>>
  /\ req' = <<"RunJob", <<"uuid", id>>>>

\* C35: RunJob enumerates, then triggers.  When the job it found is
\* removed before the trigger, the answer is a 500 carrying the
\* scheduler's error, not the 404 "Job not found".  A job leaves the
\* scheduler only by a DeleteJob answered 200, and a RunJob that starts
\* after that finds nothing: it answers 404 and triggers nothing.
C35_RunIsListThenTrigger ==
  [][/\ (runJob # NoneFound /\ runJob' = NoneFound /\ runJob \notin jobs) =>
          /\ req' = <<"RunJob", <<"uuid", runJob>>>>
          /\ resp'.status = StatusInternalServerError
          /\ resp'.body[1] = "error"
          /\ resp'.body[2] \in {ErrJobNotFound} \cup SchedErrs
          /\ calls' = << <<"Jobs", <<>>, NoErr>>,
                         <<"RunNow", <<runJob>>, resp'.body[2]>> >>
     /\ \A id \in jobs \ jobs' :
          /\ req' = <<"DeleteJob", <<"uuid", id>>>>
          /\ resp'.status = StatusOK
     /\ (runJob = NoneFound /\ runJob' # NoneFound) => runJob' \in jobs
     /\ \A id \in GoneIds :
          RunAnswersAtOnce(id) =>
            /\ resp' = respondError(StatusNotFound, "Job not found")
            /\ calls' = << <<"Jobs", <<>>, NoErr>> >>]_vars

\* A RunJob has answered 500 "gocron: job not found": its trigger came
\* after the job it had found was removed.
C35_Witness ==
  /\ runJob = NoneFound
  /\ req[1] = "RunJob"
  /\ resp = respondError(StatusInternalServerError, ErrJobNotFound)
  /\ Len(calls) = 2
  /\ calls[2] = <<"RunNow", <<req[2][2]>>, ErrJobNotFound>>
  /\ req[2][2] \notin pre[1]

\* The step hands out a new list response.
ListAnswered ==
  /\ <<req, resp, calls, pre>>' # <<req, resp, calls, pre>>
  /\ req'[1] = "GetJobs"

\* C36: a snapshot built after a delete took effect (by the loop, by a
\* handler for its initial push, or by GetJobs) holds no deleted job.  A
\* job leaves the scheduler only by a DeleteJob answered 200, which leaves
\* the snapshot of the tick in flight as it is; the loop sends that
\* snapshot and no other, and drops it when the tick ends, so a deleted
\* job is sent in no tick but the one in flight.
C36_DeletedJobOnlyInFlight ==
  [][/\ \A id \in jobs \ jobs' :
          /\ req' = <<"DeleteJob", <<"uuid", id>>>>
          /\ resp'.status = StatusOK
          /\ message' = message /\ tickPayloads' = tickPayloads
     /\ (message' # message) =>
          \/ bpc = "Build155" /\ message'[1] = "jobs"
                              /\ message'[2] \cap GoneIds = {}
          \/ bpc' = "Wait147" /\ message' = NoMessage
     /\ tickPayloads' \subseteq {message}
     /\ (bpc' = "Wait147") => (message' = NoMessage /\ tickPayloads' = {})
     /\ \A c \in Conns :
          (pushed[c] = NotPushed /\ pushed'[c] # NotPushed) =>
            pushed'[c][2][2] \cap GoneIds = {}
     /\ ListAnswered => resp'.body[2] \cap GoneIds = {}]_vars

\* The loop is about to send a snapshot holding a job that a DeleteJob,
\* answered 200 since the snapshot was built, has removed.
C36_Witness ==
  /\ bpc = "Write163"
  /\ message # NoMessage
  /\ resp.status = StatusOK
  /\ \E id \in GoneIds :
       /\ id \in message[2]
       /\ req = <<"DeleteJob", <<"uuid", id>>>>

====
